---- MODULE Spec2Model ----
(***************************************************************************)
(* A model of the timetable-builder data loading and schema validation     *)
(* layer: the exception hierarchy (core/exceptions.py), the JSON Schema    *)
(* validator with its per-instance schema cache (core/schema.py) and the   *)
(* stage-aware loader.  Files are sequences of lexical tokens, json.load   *)
(* is a recursive-descent parser over them, and a schema document is an    *)
(* ordinary JSON value interpreted with Draft 7 semantics.                 *)
(***************************************************************************)
EXTENDS Integers, Sequences, FiniteSets, TLC

VARIABLES
    disk,           \* path -> what the file system holds there
    _schema_cache,  \* SchemaValidator._schema_cache: schema name -> loaded object
    ret,            \* outcome of the last call on the validator
    input,          \* the (schema name, data) a pure validation run was given
    _cache,         \* DataLoader cache: path -> loaded object
    lret            \* outcome of the last call on the loader

vars == <<disk, _schema_cache, ret, input, _cache, lret>>

(***************************************************************************)
(* JSON values.  One record shape serves every kind of value so that any   *)
(* two values can be compared: t is the kind, n a number, s a string, a    *)
(* the children (array items or object values) and k the object keys, in   *)
(* insertion order, parallel to a.                                         *)
(***************************************************************************)
Null == [t |-> "null", n |-> 0, s |-> "", a |-> <<>>, k |-> <<>>]

Num(n) == [t |-> "num", n |-> n, s |-> "", a |-> <<>>, k |-> <<>>]

Str(s) == [t |-> "str", n |-> 0, s |-> s, a |-> <<>>, k |-> <<>>]

Arr(a) == [t |-> "arr", n |-> 0, s |-> "", a |-> a, k |-> <<>>]

Obj(k, a) == [t |-> "obj", n |-> 0, s |-> "", a |-> a, k |-> k]

\* True / False
Bool(b) == [t |-> "bool", n |-> IF b THEN 1 ELSE 0, s |-> "", a |-> <<>>, k |-> <<>>]

\* A float with an integral value (3.0), and float("inf")
Float(n) == [t |-> "float", n |-> n, s |-> "", a |-> <<>>, k |-> <<>>]

Inf == [t |-> "inf", n |-> 0, s |-> "", a |-> <<>>, k |-> <<>>]

Has(o, key) == \E i \in 1..Len(o.k) : o.k[i] = key

Get(o, key) == o.a[CHOOSE i \in 1..Len(o.k) : o.k[i] = key]

\* dict.__setitem__: an existing key keeps its position, a new key is appended.
DictSet(o, key, v) ==
    IF Has(o, key)
    THEN Obj(o.k, [i \in 1..Len(o.a) |-> IF o.k[i] = key THEN v ELSE o.a[i]])
    ELSE Obj(Append(o.k, key), Append(o.a, v))

\* Python's == on parsed JSON: lists by position, dicts regardless of key order.
RECURSIVE DeepEq(_, _)
DeepEq(x, y) ==
    /\ x.t = y.t
    /\ CASE x.t \in {"num", "bool", "float"} -> x.n = y.n
         [] x.t = "str" -> x.s = y.s
         [] x.t = "arr" -> /\ Len(x.a) = Len(y.a)
                           /\ \A i \in 1..Len(x.a) : DeepEq(x.a[i], y.a[i])
         [] x.t = "obj" -> /\ Len(x.k) = Len(y.k)
                           /\ \A i \in 1..Len(x.k) :
                                  /\ Has(y, x.k[i])
                                  /\ DeepEq(x.a[i], Get(y, x.k[i]))
         [] OTHER -> TRUE

(***************************************************************************)
(* File contents: a sequence of lexical tokens.  "badbyte" stands for      *)
(* bytes that are not valid UTF-8, "word" for a bare word that is no JSON  *)
(* literal (as in the tests' "{ invalid json }").                          *)
(***************************************************************************)
Tok(tk) == [tk |-> tk, n |-> 0, s |-> ""]

TNum(n) == [tk |-> "num", n |-> n, s |-> ""]

TStr(s) == [tk |-> "str", n |-> 0, s |-> s]

TWord(s) == [tk |-> "word", n |-> 0, s |-> s]

\* json.dumps
RECURSIVE Dumps(_)
RECURSIVE DumpItems(_, _)
RECURSIVE DumpMembers(_, _)
Dumps(v) ==
    CASE v.t = "num" -> <<TNum(v.n)>>
      [] v.t = "str" -> <<TStr(v.s)>>
      [] v.t = "bool" -> <<Tok(IF v.n = 1 THEN "true" ELSE "false")>>
      [] v.t = "float" -> <<[tk |-> "float", n |-> v.n, s |-> ""]>>
      [] v.t = "inf" -> <<Tok("Infinity")>>
      [] v.t = "arr" -> <<Tok("[")>> \o DumpItems(v.a, 1) \o <<Tok("]")>>
      [] v.t = "obj" -> <<Tok("{")>> \o DumpMembers(v, 1) \o <<Tok("}")>>
      [] OTHER -> <<Tok("null")>>

DumpItems(a, i) ==
    IF i > Len(a) THEN <<>>
    ELSE Dumps(a[i]) \o (IF i < Len(a) THEN <<Tok(",")>> ELSE <<>>) \o DumpItems(a, i + 1)

DumpMembers(o, i) ==
    IF i > Len(o.k) THEN <<>>
    ELSE <<TStr(o.k[i]), Tok(":")>> \o Dumps(o.a[i])
         \o (IF i < Len(o.k) THEN <<Tok(",")>> ELSE <<>>) \o DumpMembers(o, i + 1)

\* The JSON decoder: each parser returns [ok, v, rest].
PFail == [ok |-> FALSE, v |-> Null, rest |-> <<>>]

POk(v, rest) == [ok |-> TRUE, v |-> v, rest |-> rest]

RECURSIVE ParseValue(_)
RECURSIVE ParseItems(_, _)
RECURSIVE ParseMembers(_, _)
ParseValue(ts) ==
    IF ts = <<>> THEN PFail
    ELSE LET h == Head(ts)
             r == Tail(ts)
         IN CASE h.tk = "num" -> POk(Num(h.n), r)
              [] h.tk = "str" -> POk(Str(h.s), r)
              [] h.tk = "null" -> POk(Null, r)
              [] h.tk = "true" -> POk(Bool(TRUE), r)
              [] h.tk = "false" -> POk(Bool(FALSE), r)
              [] h.tk = "float" -> POk(Float(h.n), r)
              [] h.tk = "Infinity" -> POk(Inf, r)
              [] h.tk = "[" ->
                    IF r # <<>> /\ Head(r).tk = "]" THEN POk(Arr(<<>>), Tail(r))
                    ELSE ParseItems(r, <<>>)
              [] h.tk = "{" ->
                    IF r # <<>> /\ Head(r).tk = "}" THEN POk(Obj(<<>>, <<>>), Tail(r))
                    ELSE ParseMembers(r, Obj(<<>>, <<>>))
              [] OTHER -> PFail

ParseItems(ts, acc) ==
    LET p == ParseValue(ts)
    IN IF ~p.ok \/ p.rest = <<>> THEN PFail
       ELSE LET sep == Head(p.rest)
                more == Tail(p.rest)
            IN CASE sep.tk = "]" -> POk(Arr(Append(acc, p.v)), more)
                 [] sep.tk = "," -> ParseItems(more, Append(acc, p.v))
                 [] OTHER -> PFail

ParseMembers(ts, acc) ==
    IF Len(ts) < 2 \/ ts[1].tk # "str" \/ ts[2].tk # ":" THEN PFail
    ELSE LET p == ParseValue(SubSeq(ts, 3, Len(ts)))
         IN IF ~p.ok \/ p.rest = <<>> THEN PFail
            ELSE LET sep == Head(p.rest)
                     more == Tail(p.rest)
                     acc2 == DictSet(acc, ts[1].s, p.v)
                 IN CASE sep.tk = "}" -> POk(acc2, more)
                      [] sep.tk = "," -> ParseMembers(more, acc2)
                      [] OTHER -> PFail

\* open(path, "r", encoding="utf-8") followed by json.load(f): the text is
\* decoded first, then parsed; trailing text after the value is an error.
JsonLoad(text) ==
    IF \E i \in 1..Len(text) : text[i].tk = "badbyte"
    THEN [exc |-> "UnicodeDecodeError", v |-> Null]
    ELSE LET p == ParseValue(text)
         IN IF p.ok /\ p.rest = <<>>
            THEN [exc |-> "none", v |-> p.v]
            ELSE [exc |-> "JSONDecodeError", v |-> Null]

(***************************************************************************)
(* Text.  A message is a sequence of words; the words of a format string   *)
(* are kept as written so that str.lower() and substring tests mean        *)
(* something.  Keys and indices of a data path are rendered to code points *)
(* so that joined paths can be compared as Python compares strings.        *)
(***************************************************************************)
LowerWord(w) ==
    CASE w = "Data" -> "data"
      [] w = "File" -> "file"
      [] w = "Schema" -> "schema"
      [] w = "Invalid" -> "invalid"
      [] w = "JSON" -> "json"
      [] w = "Validation" -> "validation"
      [] w = "Path" -> "path"
      [] w = "Expecting" -> "expecting"
      [] OTHER -> w

\* str.lower()
Lower(text) == [i \in 1..Len(text) |-> LowerWord(text[i])]

\* phrase in text
Contains(text, phrase) ==
    \E i \in 1..(Len(text) - Len(phrase) + 1) :
        SubSeq(text, i, i + Len(phrase) - 1) = phrase

\* The code points of the strings that occur as keys or keywords.
Chars(s) ==
    CASE s = "faculty" -> <<102, 97, 99, 117, 108, 116, 121>>
      [] s = "facultyId" -> <<102, 97, 99, 117, 108, 116, 121, 73, 100>>
      [] s = "name" -> <<110, 97, 109, 101>>
      [] s = "type" -> <<116, 121, 112, 101>>
      [] s = "required" -> <<114, 101, 113, 117, 105, 114, 101, 100>>
      [] s = "properties" -> <<112, 114, 111, 112, 101, 114, 116, 105, 101, 115>>
      [] s = "items" -> <<105, 116, 101, 109, 115>>
      [] OTHER -> <<63>>

\* str(i) for a list index
RECURSIVE Digits(_)
Digits(i) == IF i < 10 THEN <<48 + i>> ELSE Digits(i \div 10) \o <<48 + (i % 10)>>

\* One element of a jsonschema error path: an object key or a list index.
Key(s) == [pk |-> "key", key |-> s, idx |-> 0]

Idx(i) == [pk |-> "idx", key |-> "", idx |-> i]

\* str(p)
ElemStr(p) == IF p.pk = "key" THEN Chars(p.key) ELSE Digits(p.idx)

\* ".".join(str(p) for p in path)
RECURSIVE Dotted(_)
Dotted(path) ==
    IF path = <<>> THEN <<>>
    ELSE IF Len(path) = 1 THEN ElemStr(path[1])
    ELSE ElemStr(path[1]) \o <<46>> \o Dotted(Tail(path))

\* Python's < on two strings (sequences of code points).
RECURSIVE StrLess(_, _)
StrLess(x, y) ==
    IF y = <<>> THEN FALSE
    ELSE IF x = <<>> THEN TRUE
    ELSE IF x[1] # y[1] THEN x[1] < y[1]
    ELSE StrLess(Tail(x), Tail(y))

(***************************************************************************)
(* Exceptions (core/exceptions.py) and the built-in exceptions that file   *)
(* access can raise.  NoPath stands for None.                              *)
(***************************************************************************)
NoPath == ""

NoExc ==
    [type |-> "none", message |-> <<>>, filepath |-> NoPath, field |-> "", details |-> <<>>]

TimetableError(type, message, details) ==
    [type |-> type, message |-> message, filepath |-> NoPath, field |-> "",
     details |-> details]

\* A DataLoadError that forgets the file it is about.
DataLoadError_without_filepath(message, filepath, details) ==
    TimetableError("DataLoadError", message, details)

DataLoadError(message, filepath, details) ==
    [TimetableError("DataLoadError", message, details) EXCEPT
        !.filepath = IF filepath # NoPath THEN filepath ELSE NoPath]

\* A ValidationError that forgets its details.
ValidationError_without_details(message, field, details) ==
    [TimetableError("ValidationError", message, <<>>) EXCEPT !.field = field]

ValidationError(message, field, details) ==
    [TimetableError("ValidationError", message, details) EXCEPT !.field = field]

BuiltinError(type, path) ==
    [type |-> type, message |-> <<type, path>>, filepath |-> NoPath, field |-> "",
     details |-> <<>>]

\* __str__
ExcStr(e) ==
    CASE e.type = "DataLoadError" ->
            IF e.filepath # NoPath
            THEN <<"Data", "load", "error", "for", e.filepath, ":">> \o e.message
            ELSE <<"Data", "load", "error", ":">> \o e.message
      [] e.type = "ValidationError" ->
            IF e.field # ""
            THEN <<"Validation", "error", "in", e.field, ":">> \o e.message
            ELSE <<"Validation", "error", ":">> \o e.message
      [] OTHER -> e.message

\* isinstance(e, TimetableError)
IsTimetableError(e) ==
    e.type \in {"TimetableError", "ValidationError", "DataLoadError",
                "ConfigurationError", "StageError", "SchedulingError"}

\* details.get(key), "" for None
DetailsGet(e, key) ==
    IF \E i \in 1..Len(e.details) : e.details[i][1] = key
    THEN e.details[CHOOSE i \in 1..Len(e.details) : e.details[i][1] = key][2]
    ELSE ""

(***************************************************************************)
(* The file system as the calls see it.                                    *)
(***************************************************************************)
Missing == [kind |-> "missing", text |-> <<>>]

Dir == [kind |-> "dir", text |-> <<>>]

File(text) == [kind |-> "file", text |-> text]

At(d, p) == IF p \in DOMAIN d THEN d[p] ELSE Missing

\* Path.exists()
Exists(d, p) == At(d, p).kind # "missing"

\* Path.is_file()
IsFile(d, p) == At(d, p).kind = "file"

\* with open(path, "r", encoding="utf-8") as f: json.load(f)
\* open() fails on a directory; otherwise the text is decoded and parsed.
OpenAndLoad(d, p) ==
    IF At(d, p).kind = "dir" THEN [exc |-> "IsADirectoryError", v |-> Null]
    ELSE IF At(d, p).kind = "missing" THEN [exc |-> "FileNotFoundError", v |-> Null]
    ELSE JsonLoad(At(d, p).text)

(***************************************************************************)
(* jsonschema's Draft7Validator, as far as the validator relies on it: the *)
(* keywords type, required, properties and items, applied in the order of  *)
(* the schema's keys; other keys ("$schema", "title", ...) are ignored.    *)
(* An error carries the path (deque) to the offending instance.            *)
(***************************************************************************)
JsError(message, validator, instance) ==
    [message |-> message, path |-> <<>>, schema_path |-> <<>>,
     instance |-> instance, validator |-> validator]

\* TypeChecker.is_type
IsType(inst, ty) ==
    CASE ty = "object" -> inst.t = "obj"
      [] ty = "array" -> inst.t = "arr"
      [] ty = "string" -> inst.t = "str"
      [] ty = "integer" -> inst.t \in {"num", "float"}
      [] ty = "number" -> inst.t \in {"num", "float", "inf"}
      [] ty = "boolean" -> inst.t = "bool"
      [] ty = "null" -> inst.t = "null"
      [] OTHER -> FALSE

\* _keywords.type
TypeKw(types, inst) ==
    LET ts == IF types.t = "arr" THEN types.a ELSE <<types>>
    IN IF \E i \in 1..Len(ts) : IsType(inst, ts[i].s) THEN <<>>
       ELSE <<JsError(<<"instance", "is", "not", "of", "type", ts[1].s>>, "type", inst)>>

\* A required check that stops at the first missing property.
RequiredKw_first_only(required, inst) ==
    IF inst.t # "obj" THEN <<>>
    ELSE LET missing == SelectSeq(required.a, LAMBDA p : ~Has(inst, p.s))
         IN IF missing = <<>> THEN <<>>
            ELSE <<JsError(<<missing[1].s, "is", "a", "required", "property">>,
                           "required", inst)>>

\* _keywords.required
RequiredKw(required, inst) ==
    IF inst.t # "obj" THEN <<>>
    ELSE LET missing == SelectSeq(required.a, LAMBDA p : ~Has(inst, p.s))
         IN [i \in 1..Len(missing) |->
                JsError(<<missing[i].s, "is", "a", "required", "property">>,
                        "required", inst)]

\* Validator.descend: the errors of a sub-instance, their paths extended on the left.
Descend(errs, path, schema_path) ==
    [i \in 1..Len(errs) |->
        [errs[i] EXCEPT !.path = path \o @, !.schema_path = schema_path \o @]]

RECURSIVE IterErrors(_, _)
RECURSIVE IterKeywords(_, _, _)
RECURSIVE PropertiesKw(_, _, _)
RECURSIVE ItemsKw(_, _, _)
\* _keywords.properties
PropertiesKw(properties, inst, i) ==
    IF inst.t # "obj" \/ i > Len(properties.k) THEN <<>>
    ELSE LET p == properties.k[i]
         IN (IF Has(inst, p)
             THEN Descend(IterErrors(properties.a[i], Get(inst, p)), <<Key(p)>>, <<Key(p)>>)
             ELSE <<>>)
            \o PropertiesKw(properties, inst, i + 1)

\* _keywords.items (a single schema for every item)
ItemsKw(items, inst, i) ==
    IF inst.t # "arr" \/ i > Len(inst.a) THEN <<>>
    ELSE Descend(IterErrors(items, inst.a[i]), <<Idx(i - 1)>>, <<>>)
         \o ItemsKw(items, inst, i + 1)

IterKeywords(schema, inst, i) ==
    IF i > Len(schema.k) THEN <<>>
    ELSE LET k == schema.k[i]
             v == schema.a[i]
             errs == CASE k = "type" -> TypeKw(v, inst)
                       [] k = "required" -> RequiredKw(v, inst)
                       [] k = "properties" -> PropertiesKw(v, inst, 1)
                       [] k = "items" -> ItemsKw(v, inst, 1)
                       [] OTHER -> <<>>
         IN Descend(errs, <<>>, <<Key(k)>>) \o IterKeywords(schema, inst, i + 1)

\* Validator.iter_errors
IterErrors(schema, inst) == IterKeywords(schema, inst, 1)

(***************************************************************************)
(* sorted(errors, key=lambda e: e.path): deques compare element by element *)
(* with Python's <, which is undefined between a key and an index.         *)
(***************************************************************************)
ElemLess(x, y) ==
    IF x.pk = "idx" THEN x.idx < y.idx ELSE StrLess(Chars(x.key), Chars(y.key))

RECURSIVE DequeLess(_, _)
DequeLess(p, q) ==
    IF q = <<>> THEN FALSE
    ELSE IF p = <<>> THEN TRUE
    ELSE IF p[1] # q[1] THEN ElemLess(p[1], q[1])
    ELSE DequeLess(Tail(p), Tail(q))

\* TRUE when comparing p and q raises TypeError: their first differing
\* elements are a key and an index.
RECURSIVE DequeIncomparable(_, _)
DequeIncomparable(p, q) ==
    IF p = <<>> \/ q = <<>> THEN FALSE
    ELSE IF p[1] # q[1] THEN p[1].pk # q[1].pk
    ELSE DequeIncomparable(Tail(p), Tail(q))

\* A stable sort: e goes after every element that is not greater than it.
RECURSIVE InsertByPath(_, _)
InsertByPath(s, e) ==
    IF s = <<>> THEN <<e>>
    ELSE IF DequeLess(e.path, s[1].path) THEN <<e>> \o s
    ELSE <<s[1]>> \o InsertByPath(Tail(s), e)

\* The errors as found, not sorted.
SortedByPath_unsorted(errs) == errs

RECURSIVE SortedByPath(_)
SortedByPath(errs) ==
    IF errs = <<>> THEN <<>>
    ELSE InsertByPath(SortedByPath(SubSeq(errs, 1, Len(errs) - 1)), errs[Len(errs)])

\* The sort raises TypeError as soon as it compares two incomparable paths;
\* which pairs it compares depends on the algorithm, so any such pair counts.
SortRaises(errs) ==
    \E i, j \in 1..Len(errs) : i < j /\ DequeIncomparable(errs[i].path, errs[j].path)

(***************************************************************************)
(* SchemaValidator (core/schema.py).  Every method is an operator from the *)
(* cache c, the file system d and the object names in use to an outcome:   *)
(* what the call returned or raised, the cache it leaves, and the files it *)
(* opened.                                                                 *)
(***************************************************************************)
schemas_dir == "schemas"

SCHEMA_MAP ==
    [config |-> "stage1/config.schema.json",
     faculty |-> "stage1/faculty.schema.json",
     subject |-> "stage1/subject.schema.json",
     subjects_full |-> "stage2/subjects.schema.json",
     faculty_full |-> "stage2/faculty.schema.json",
     teaching_assignments |-> "stage3/teachingAssignments.schema.json",
     overlap_constraints |-> "stage3/overlapConstraints.schema.json",
     statistics |-> "stage3/statistics.schema.json"]

\* schema_file.endswith(".schema.json"), for the names the model uses
EndsWithSchemaJson(name) == name \in {"custom.schema.json"}

SchemaPath(name) ==
    LET schema_file ==
            IF name \in DOMAIN SCHEMA_MAP THEN SCHEMA_MAP[name]
            ELSE IF EndsWithSchemaJson(name) THEN name
            ELSE name \o ".schema.json"
    IN schemas_dir \o "/" \o schema_file

\* A loaded schema: id names the Python object, doc is its value.
NoObj == [id |-> 0, doc |-> Null]

SchemaError(message, path, schema_path, value) ==
    [message |-> message, path |-> path, schema_path |-> schema_path, value |-> value]

Returns(c, opened) ==
    [kind |-> "return", obj |-> NoObj, errs |-> <<>>, paths |-> <<>>, flag |-> FALSE,
     exc |-> NoExc, cache |-> c, opened |-> opened]

Raises(e, c, opened) ==
    [kind |-> "raise", obj |-> NoObj, errs |-> <<>>, paths |-> <<>>, flag |-> FALSE,
     exc |-> e, cache |-> c, opened |-> opened]

\* The name of a newly created object: none that is still referenced.
NewId(c, live) ==
    LET used == live \cup {c[n].id : n \in DOMAIN c}
    IN CHOOSE i \in 1..(Cardinality(used) + 1) :
           i \notin used /\ \A j \in 1..(i - 1) : j \in used

\* lines 146-156, given the outcome j of open + json.load and the object
\* json.load created
CacheLoaded(c, schema_name, schema_path, j, schema) ==
    CASE j.exc = "none" ->
            [Returns([n \in DOMAIN c \cup {schema_name} |->
                         IF n = schema_name THEN schema ELSE c[n]],
                     <<schema_path>>)
             EXCEPT !.obj = schema]
      [] j.exc = "JSONDecodeError" ->
            Raises(DataLoadError(<<"Invalid", "JSON", "in", "schema", "file",
                                   ":", "Expecting", "value">>,
                                 schema_path, <<>>),
                   c, <<schema_path>>)
      [] j.exc = "IsADirectoryError" ->
            Raises(BuiltinError(j.exc, schema_path), c, <<>>)
      [] OTHER ->
            Raises(BuiltinError(j.exc, schema_path), c, <<schema_path>>)

\* lines 137-156, schema_path being the path computed at lines 129-137
LoadFrom(c, d, live, schema_name, schema_path, j) ==
    IF ~Exists(d, schema_path)
    THEN Raises(DataLoadError(<<"Schema", "file", "not", "found", ":", schema_path>>,
                              schema_path, <<<<"schema_name", schema_name>>>>),
                c, <<>>)
    ELSE CacheLoaded(c, schema_name, schema_path, j,
                     [id |-> NewId(c, live), doc |-> j.v])

\* get_schema, lines 128-156: the schema is not cached and is read from its file.
load_schema(c, d, live, schema_name) ==
    LoadFrom(c, d, live, schema_name, SchemaPath(schema_name),
             OpenAndLoad(d, SchemaPath(schema_name)))

\* A get_schema that never looks in the cache.
get_schema_uncached(c, d, live, schema_name) == load_schema(c, d, live, schema_name)

get_schema(c, d, live, schema_name) ==
    IF schema_name \in DOMAIN c
    THEN [Returns(c, <<>>) EXCEPT !.obj = c[schema_name]]
    ELSE load_schema(c, d, live, schema_name)

\* lines 178-190: one SchemaError per jsonschema error, in sorted order
Report(g, errors) ==
    [Returns(g.cache, g.opened) EXCEPT
        !.errs = [i \in 1..Len(errors) |->
                    SchemaError(errors[i].message,
                                Dotted(errors[i].path),
                                Dotted(errors[i].schema_path),
                                IF errors[i].instance.t # "obj"
                                THEN errors[i].instance ELSE Null)],
        !.paths = [i \in 1..Len(errors) |-> errors[i].path]]

\* line 177: sorted(..., key=lambda e: e.path), which may raise TypeError
SortAndReport(g, found) ==
    IF SortRaises(found)
    THEN Raises(BuiltinError("TypeError", NoPath), g.cache, g.opened)
    ELSE Report(g, SortedByPath(found))

\* lines 174-190, given the outcome g of get_schema (line 172)
ValidateAgainst(g, data) ==
    IF g.kind = "raise" THEN g ELSE SortAndReport(g, IterErrors(g.obj.doc, data))

validate_data(c, d, live, data, schema_name) ==
    ValidateAgainst(get_schema(c, d, live, schema_name), data)

\* the call took place after filepath was opened
AfterOpening(filepath, v) == [v EXCEPT !.opened = <<filepath>> \o @]

\* lines 217-227, given the outcome j of open + json.load
ValidateLoaded(c, d, live, filepath, schema_name, j) ==
    CASE j.exc = "none" ->
            AfterOpening(filepath, validate_data(c, d, live, j.v, schema_name))
      [] j.exc = "JSONDecodeError" ->
            Raises(DataLoadError(<<"Invalid", "JSON", "syntax", ":",
                                   "Expecting", "value">>, filepath, <<>>),
                   c, <<filepath>>)
      [] j.exc = "IsADirectoryError" ->
            Raises(BuiltinError(j.exc, filepath), c, <<>>)
      [] OTHER -> Raises(BuiltinError(j.exc, filepath), c, <<filepath>>)

validate_file(c, d, live, filepath, schema_name) ==
    IF ~Exists(d, filepath)
    THEN Raises(DataLoadError(<<"File", "not", "found", ":", filepath>>, filepath, <<>>),
                c, <<>>)
    ELSE ValidateLoaded(c, d, live, filepath, schema_name, OpenAndLoad(d, filepath))

\* return len(errors) == 0
NoErrors(v) ==
    IF v.kind = "raise" THEN v
    ELSE [Returns(v.cache, v.opened) EXCEPT !.flag = (Len(v.errs) = 0)]

is_valid(c, d, live, data, schema_name) ==
    NoErrors(validate_data(c, d, live, data, schema_name))

\* try: ... return len(errors) == 0 / except DataLoadError: return False
NoErrorsOrFalse(v) ==
    IF v.kind = "return"
    THEN [Returns(v.cache, v.opened) EXCEPT !.flag = (Len(v.errs) = 0)]
    ELSE IF v.exc.type = "DataLoadError"
    THEN [Returns(v.cache, v.opened) EXCEPT !.flag = FALSE]
    ELSE v

is_file_valid(c, d, live, filepath, schema_name) ==
    NoErrorsOrFalse(validate_file(c, d, live, filepath, schema_name))

\* clear_cache: the cache it leaves
clear_cache(c) == [n \in {} |-> NoObj]

(***************************************************************************)
(* The typed model of facultyBasic.json (models/stage1.py): unknown keys   *)
(* are rejected, facultyId and name are non-empty strings, designation is  *)
(* a string, and the two subject lists default to empty.                   *)
(***************************************************************************)
IsStrList(v) == v.t = "arr" /\ \A i \in 1..Len(v.a) : v.a[i].t = "str"

\* AssignedSubject = Union[str, dict[str, list[str]]]
IsAssignedSubject(v) ==
    \/ v.t = "str"
    \/ v.t = "obj" /\ \A i \in 1..Len(v.a) : IsStrList(v.a[i])

FacultyAccepts(v) ==
    /\ v.t = "obj"
    /\ \A i \in 1..Len(v.k) :
          v.k[i] \in {"facultyId", "name", "designation", "assignedSubjects",
                      "supportingSubjects"}
    /\ Has(v, "facultyId") /\ Get(v, "facultyId").t = "str" /\ Get(v, "facultyId").s # ""
    /\ Has(v, "name") /\ Get(v, "name").t = "str" /\ Get(v, "name").s # ""
    /\ Has(v, "designation") /\ Get(v, "designation").t = "str"
    /\ Has(v, "assignedSubjects") =>
          /\ Get(v, "assignedSubjects").t = "arr"
          /\ \A i \in 1..Len(Get(v, "assignedSubjects").a) :
                IsAssignedSubject(Get(v, "assignedSubjects").a[i])
    /\ Has(v, "supportingSubjects") => IsStrList(Get(v, "supportingSubjects"))

Faculty(v) ==
    [faculty_id |-> Get(v, "facultyId").s,
     name |-> Get(v, "name").s,
     designation |-> Get(v, "designation").s,
     assigned_subjects |->
        IF Has(v, "assignedSubjects") THEN Get(v, "assignedSubjects").a ELSE <<>>,
     supporting_subjects |->
        IF Has(v, "supportingSubjects") THEN Get(v, "supportingSubjects").a ELSE <<>>]

FacultyFileAccepts(v) ==
    /\ v.t = "obj"
    /\ \A i \in 1..Len(v.k) : v.k[i] = "faculty"
    /\ Has(v, "faculty")
    /\ Get(v, "faculty").t = "arr"
    /\ \A i \in 1..Len(Get(v, "faculty").a) : FacultyAccepts(Get(v, "faculty").a[i])

FacultyFile(v) ==
    [i \in 1..Len(Get(v, "faculty").a) |-> Faculty(Get(v, "faculty").a[i])]

(***************************************************************************)
(* pydantic, as the models rely on it.  A type is a record: k its kind,    *)
(* ge/le and min_length/max_length its Field constraints (a set that is    *)
(* empty when the constraint is absent), item the types it is built from,  *)
(* opts the values of a Literal, fields/extra/after the fields, the        *)
(* extra= setting and the model validator of a BaseModel.  Validation is   *)
(* lax, as BaseModel's default: an int field also takes a bool, a float    *)
(* with an integral value or a numeric string.  A model instance is an     *)
(* object keyed by the Python field names, in declaration order.           *)
(***************************************************************************)
T(k) ==
    [k |-> k, ge |-> {}, le |-> {}, min_length |-> {}, max_length |-> {},
     item |-> <<>>, opts |-> {}, fields |-> <<>>, extra |-> "", after |-> ""]

StrT == T("str")

StrMin(n) == [T("str") EXCEPT !.min_length = {n}]

IntT == T("int")

IntGe(lo) == [T("int") EXCEPT !.ge = {lo}]

IntIn(lo, hi) == [T("int") EXCEPT !.ge = {lo}, !.le = {hi}]

FloatT == T("float")

FloatGe(lo) == [T("float") EXCEPT !.ge = {lo}]

BoolT == T("bool")

ListOf(ty) == [T("list") EXCEPT !.item = <<ty>>]

ListLen(ty, lo, hi) ==
    [T("list") EXCEPT !.item = <<ty>>, !.min_length = {lo}, !.max_length = {hi}]

DictOf(ty) == [T("dict") EXCEPT !.item = <<ty>>]

Literal(opts) == [T("literal") EXCEPT !.opts = opts]

Optional(ty) == [T("optional") EXCEPT !.item = <<ty>>]

Union(tys) == [T("union") EXCEPT !.item = tys]

BaseModel(fields, extra, after) ==
    [T("model") EXCEPT !.fields = fields, !.extra = extra, !.after = after]

\* name: type = Field(..., alias=alias)
Field(name, alias, ty) ==
    [name |-> name, alias |-> alias, ty |-> ty, required |-> TRUE, default |-> Null,
     validator |-> ""]

\* name: type = Field(default, alias=alias)
FieldDefault(name, alias, ty, default) ==
    [name |-> name, alias |-> alias, ty |-> ty, required |-> FALSE,
     default |-> default, validator |-> ""]

\* @field_validator(name)
WithValidator(f, validator) == [f EXCEPT !.validator = validator]

VFail == [ok |-> FALSE, v |-> Null]

VOk(v) == [ok |-> TRUE, v |-> v]

\* int("7"): the decimal strings the model's documents use
DecimalStrings == {"0", "1", "2", "3", "4", "5", "6", "7", "8", "9"}

StrToInt(s) ==
    CASE s = "0" -> 0 [] s = "1" -> 1 [] s = "2" -> 2 [] s = "3" -> 3 [] s = "4" -> 4
      [] s = "5" -> 5 [] s = "6" -> 6 [] s = "7" -> 7 [] s = "8" -> 8 [] s = "9" -> 9

\* lax int: int, bool, float with no fraction, numeric string
CoerceInt(v) ==
    CASE v.t \in {"num", "bool", "float"} -> VOk(Num(v.n))
      [] v.t = "str" /\ v.s \in DecimalStrings -> VOk(Num(StrToInt(v.s)))
      [] OTHER -> VFail

\* lax float: float (inf and nan allowed), int, bool, numeric string
CoerceFloat(v) ==
    CASE v.t \in {"num", "bool", "float"} -> VOk(Float(v.n))
      [] v.t = "inf" -> VOk(Inf)
      [] v.t = "str" /\ v.s \in DecimalStrings -> VOk(Float(StrToInt(v.s)))
      [] OTHER -> VFail

\* lax bool: bool, 0 / 1, and the strings pydantic reads as booleans
CoerceBool(v) ==
    CASE v.t = "bool" -> VOk(v)
      [] v.t \in {"num", "float"} /\ v.n \in {0, 1} -> VOk(Bool(v.n = 1))
      [] v.t = "str" /\ v.s \in {"1", "true", "yes", "on", "y", "t"} -> VOk(Bool(TRUE))
      [] v.t = "str" /\ v.s \in {"0", "false", "no", "off", "n", "f"} -> VOk(Bool(FALSE))
      [] OTHER -> VFail

\* ge= / le= on a number already coerced (inf is above every bound)
InRange(ty, v) ==
    /\ \A lo \in ty.ge : v.t = "inf" \/ v.n >= lo
    /\ \A hi \in ty.le : v.t # "inf" /\ v.n <= hi

\* min_length= / max_length= on a length
LenOk(ty, n) ==
    /\ \A lo \in ty.min_length : n >= lo
    /\ \A hi \in ty.max_length : n <= hi

Checked(ty, r) == IF r.ok /\ InRange(ty, r.v) THEN r ELSE VFail

\* Subject.validate_credit_pattern
validate_credit_pattern(v) == Len(v.a) = 3 /\ \A i \in 1..Len(v.a) : v.a[i].n >= 0

\* A model validator that checks nothing.
validate_total_credits_unchecked(m) == TRUE

\* Subject.validate_total_credits
validate_total_credits(m) ==
    LET cp == Get(m, "credit_pattern").a
    IN Get(m, "total_credits").n = cp[1].n + cp[2].n + cp[3].n

\* A text whose characters matter is the sequence of its characters.
DigitValue(c) ==
    CASE c = "0" -> 0 [] c = "1" -> 1 [] c = "2" -> 2 [] c = "3" -> 3 [] c = "4" -> 4
      [] c = "5" -> 5 [] c = "6" -> 6 [] c = "7" -> 7 [] c = "8" -> 8 [] c = "9" -> 9

IsDigit(c) == c \in {"0", "1", "2", "3", "4", "5", "6", "7", "8", "9"}

RECURSIVE Split(_, _)
\* str.split(sep)
Split(s, sep) ==
    IF \A i \in 1..Len(s) : s[i] # sep THEN <<s>>
    ELSE LET c == CHOOSE i \in 1..Len(s) :
                     s[i] = sep /\ \A j \in 1..(i - 1) : s[j] # sep
         IN <<SubSeq(s, 1, c - 1)>> \o Split(SubSeq(s, c + 1, Len(s)), sep)

RECURSIVE Strip(_)
\* str.strip() of blanks
Strip(s) ==
    IF s = <<>> THEN s
    ELSE IF Head(s) = " " THEN Strip(Tail(s))
    ELSE IF s[Len(s)] = " " THEN Strip(SubSeq(s, 1, Len(s) - 1))
    ELSE s

RECURSIVE Decimal(_)
\* The number a run of digits and underscores writes.
Decimal(s) ==
    IF s = <<>> THEN 0
    ELSE IF s[Len(s)] = "_" THEN Decimal(SubSeq(s, 1, Len(s) - 1))
    ELSE 10 * Decimal(SubSeq(s, 1, Len(s) - 1)) + DigitValue(s[Len(s)])

\* Digits, with single underscores between them.
IsDecimal(s) ==
    /\ s # <<>>
    /\ IsDigit(s[1])
    /\ IsDigit(s[Len(s)])
    /\ \A i \in 1..Len(s) : IsDigit(s[i]) \/ s[i] = "_"
    /\ \A i \in 1..(Len(s) - 1) : ~(s[i] = "_" /\ s[i + 1] = "_")

\* The text after the blanks around it and its sign are taken off.
Unsigned(s) == IF s # <<>> /\ s[1] \in {"+", "-"} THEN Tail(s) ELSE s

\* int(text): blanks around the number, a sign, digits; ValueError otherwise
IntOf(s) ==
    IF ~IsDecimal(Unsigned(Strip(s))) THEN [ok |-> FALSE, n |-> 0]
    ELSE IF Strip(s)[1] = "-" THEN [ok |-> TRUE, n |-> 0 - Decimal(Unsigned(Strip(s)))]
    ELSE [ok |-> TRUE, n |-> Decimal(Unsigned(Strip(s)))]

\* hour, minute = int(parts[0]), int(parts[1]) and their ranges
TimeParts(hour, minute) ==
    /\ hour.ok
    /\ minute.ok
    /\ 0 <= hour.n /\ hour.n <= 23
    /\ 0 <= minute.n /\ minute.n <= 59

\* TimeSlot.validate_time_format
validate_time_format(v) ==
    /\ Len(Split(v.s, ":")) = 2
    /\ TimeParts(IntOf(Split(v.s, ":")[1]), IntOf(Split(v.s, ":")[2]))

\* The field validators, by name.
FieldValidator(name, v) ==
    CASE name = "validate_credit_pattern" -> validate_credit_pattern(v)
      [] name = "validate_time_format" -> validate_time_format(v)
      [] OTHER -> TRUE

\* The model validators (mode="after"), by name.
ModelValidator(name, m) ==
    CASE name = "validate_total_credits" -> validate_total_credits(m)
      [] OTHER -> TRUE

AliasesOf(fields) == {fields[i].alias : i \in 1..Len(fields)}

RECURSIVE Validate(_, _)
RECURSIVE ValidateItems(_, _, _, _)
RECURSIVE ValidateUnion(_, _, _)
RECURSIVE ValidateFields(_, _, _, _)
ItemsStep(ty, a, i, acc, r) ==
    IF r.ok THEN ValidateItems(ty, a, i + 1, Append(acc, r.v)) ELSE VFail

\* the items of a list, or the values of a dict; acc collects them
ValidateItems(ty, a, i, acc) ==
    IF i > Len(a) THEN VOk(acc) ELSE ItemsStep(ty, a, i, acc, Validate(ty, a[i]))

UnionStep(tys, v, i, r) == IF r.ok THEN r ELSE ValidateUnion(tys, v, i + 1)

\* the first member of the union that accepts the value
ValidateUnion(tys, v, i) ==
    IF i > Len(tys) THEN VFail ELSE UnionStep(tys, v, i, Validate(tys[i], v))

\* the field validator runs on the value the type accepted
Validated(f, r) == IF r.ok /\ FieldValidator(f.validator, r.v) THEN r ELSE VFail

\* the value of one field: from the data under its alias, else its default
FieldValue(f, data) ==
    IF Has(data, f.alias) THEN Validated(f, Validate(f.ty, Get(data, f.alias)))
    ELSE IF f.required THEN VFail
    ELSE VOk(f.default)

FieldsStep(fields, data, i, acc, r) ==
    IF r.ok THEN ValidateFields(fields, data, i + 1, Append(acc, r.v)) ELSE VFail

\* the fields of a model, in declaration order; acc collects their values
ValidateFields(fields, data, i, acc) ==
    IF i > Len(fields) THEN VOk(acc)
    ELSE FieldsStep(fields, data, i, acc, FieldValue(fields[i], data))

\* the model instance built from validated field values
Instance(ty, values) == Obj([i \in 1..Len(ty.fields) |-> ty.fields[i].name], values)

AfterValidator(ty, r) ==
    IF r.ok /\ ModelValidator(ty.after, Instance(ty, r.v))
    THEN VOk(Instance(ty, r.v)) ELSE VFail

\* the list or dict rebuilt from its validated items
Collected(v, r) ==
    IF ~r.ok THEN VFail
    ELSE IF v.t = "arr" THEN VOk(Arr(r.v)) ELSE VOk(Obj(v.k, r.v))

\* Model.model_validate(v), and the validation of a value against a type
Validate(ty, v) ==
    CASE ty.k = "str" ->
            IF v.t = "str" /\ LenOk(ty, Len(v.s)) THEN VOk(v) ELSE VFail
      [] ty.k = "int" -> Checked(ty, CoerceInt(v))
      [] ty.k = "float" -> Checked(ty, CoerceFloat(v))
      [] ty.k = "bool" -> CoerceBool(v)
      [] ty.k = "literal" -> IF v.t = "str" /\ v.s \in ty.opts THEN VOk(v) ELSE VFail
      [] ty.k = "optional" -> IF v.t = "null" THEN VOk(Null) ELSE Validate(ty.item[1], v)
      [] ty.k = "union" -> ValidateUnion(ty.item, v, 1)
      [] ty.k = "list" ->
            IF v.t = "arr" /\ LenOk(ty, Len(v.a))
            THEN Collected(v, ValidateItems(ty.item[1], v.a, 1, <<>>)) ELSE VFail
      [] ty.k = "dict" ->
            IF v.t = "obj"
            THEN Collected(v, ValidateItems(ty.item[1], v.a, 1, <<>>)) ELSE VFail
      [] ty.k = "model" ->
            IF v.t = "obj"
               /\ (ty.extra = "forbid" =>
                      \A i \in 1..Len(v.k) : v.k[i] \in AliasesOf(ty.fields))
            THEN AfterValidator(ty, ValidateFields(ty.fields, v, 1, <<>>))
            ELSE VFail
      [] OTHER -> VFail

RECURSIVE Dump(_, _)
RECURSIVE DumpUnion(_, _, _)
\* the member of the union the value belongs to
DumpUnion(tys, v, i) ==
    IF i >= Len(tys) \/ Validate(tys[i], v).ok THEN Dump(tys[i], v)
    ELSE DumpUnion(tys, v, i + 1)

\* model_dump_json(by_alias=True), before it is written as text: field
\* aliases as keys, inf written as null (ser_json_inf_nan="null")
Dump(ty, v) ==
    CASE ty.k = "float" -> IF v.t = "inf" THEN Null ELSE v
      [] ty.k = "optional" -> IF v.t = "null" THEN Null ELSE Dump(ty.item[1], v)
      [] ty.k = "union" -> DumpUnion(ty.item, v, 1)
      [] ty.k = "list" -> Arr([i \in 1..Len(v.a) |-> Dump(ty.item[1], v.a[i])])
      [] ty.k = "dict" -> Obj(v.k, [i \in 1..Len(v.a) |-> Dump(ty.item[1], v.a[i])])
      [] ty.k = "model" ->
            Obj([i \in 1..Len(ty.fields) |-> ty.fields[i].alias],
                [i \in 1..Len(ty.fields) |-> Dump(ty.fields[i].ty, v.a[i])])
      [] OTHER -> v

(***************************************************************************)
(* Python floats (IEEE 754 doubles), for values >= 0.  A float is zero, or *)
(* man * 2^(exp - 52) with man a significand of MantissaBits binary        *)
(* digits, the most significant first and equal to 1.  Every operation     *)
(* returns the double nearest to the exact result, ties to the even        *)
(* significand.  Digits are kept in sequences because the significand does *)
(* not fit the integers of the checker.                                    *)
(***************************************************************************)
MantissaBits == 53

\* the binary digits of an int >= 0, most significant first (none for 0)
RECURSIVE BitsOf(_)
BitsOf(n) == IF n = 0 THEN <<>> ELSE Append(BitsOf(n \div 2), n % 2)

Zeros(k) == [i \in 1..k |-> 0]

FZero == [t |-> "double", zero |-> TRUE, exp |-> 0, man |-> <<>>]

FloatOf(exp, man) == [t |-> "double", zero |-> FALSE, exp |-> exp, man |-> man]

\* float(n) of an int that fits the significand
IntToFloat(n) ==
    IF n = 0 THEN FZero
    ELSE FloatOf(Len(BitsOf(n)) - 1, BitsOf(n) \o Zeros(MantissaBits - Len(BitsOf(n))))

\* the int whose binary digits are b (a few digits at most)
RECURSIVE ValueOf(_)
ValueOf(b) ==
    IF b = <<>> THEN 0 ELSE 2 * ValueOf(SubSeq(b, 1, Len(b) - 1)) + b[Len(b)]

\* the last w binary digits of v
LastBits(v, w) == [i \in 1..w |-> (v \div 2^(w - i)) % 2]

\* the digits of b + 1: the last 0 becomes 1 and the 1s after it become 0
Incr(b) ==
    IF \A i \in 1..Len(b) : b[i] = 1 THEN <<1>> \o Zeros(Len(b))
    ELSE [i \in 1..Len(b) |->
             IF \E j \in (i + 1)..Len(b) : b[j] = 0 THEN b[i]
             ELSE IF b[i] = 0 THEN 1 ELSE 0]

\* the significand after rounding up: a carry out of it raises the exponent
Carried(exp, m) ==
    IF Len(m) > MantissaBits THEN FloatOf(exp + 1, SubSeq(m, 1, MantissaBits))
    ELSE FloatOf(exp, m)

Rounded(exp, man, up) == IF up THEN Carried(exp, Incr(man)) ELSE FloatOf(exp, man)

\* A division that drops the digits it cannot keep.
RoundUp_truncating(twice_rem, den, last) == FALSE

\* round to nearest, ties to even: the remainder is compared with half of
\* the divisor
RoundUp(twice_rem, den, last) ==
    twice_rem > den \/ (twice_rem = den /\ last = 1)

\* num and den scaled by powers of two until den <= num < 2 * den
RECURSIVE Normalised(_, _, _)
Normalised(num, den, exp) ==
    IF num < den THEN Normalised(2 * num, den, exp - 1)
    ELSE IF num >= 2 * den THEN Normalised(num, 2 * den, exp + 1)
    ELSE [num |-> num, den |-> den, exp |-> exp]

\* the digits handled in one step: eight, or those that are left
Step(left) == IF left < 8 THEN left ELSE 8

\* long division, a step of digits at a time: the digits of the quotient
\* after those in acc
RECURSIVE QuotientBits(_, _, _)
QuotientBits(rem, den, acc) ==
    IF Len(acc) = MantissaBits THEN [bits |-> acc, rem |-> rem]
    ELSE QuotientBits((rem * 2^Step(MantissaBits - Len(acc))) % den, den,
                      acc \o LastBits((rem * 2^Step(MantissaBits - Len(acc))) \div den,
                                    Step(MantissaBits - Len(acc))))

RoundedQuotient(z, q) ==
    Rounded(z.exp, q.bits, RoundUp(2 * q.rem, z.den, q.bits[MantissaBits]))

Quotient(z) == RoundedQuotient(z, QuotientBits(z.num - z.den, z.den, <<1>>))

\* n / float(d), for ints n >= 0 and d > 0: int.__truediv__
TrueDiv(n, d) == IF n = 0 THEN FZero ELSE Quotient(Normalised(n, d, 0))

\* the digits of b[1..i] * c + carry followed by acc, for a small int c:
\* schoolbook, a step of digits at a time from the last digit
RECURSIVE MulSmall(_, _, _, _, _)
MulSmall(b, c, i, carry, acc) ==
    IF i = 0 THEN BitsOf(carry) \o acc
    ELSE MulSmall(b, c, i - Step(i),
                  (ValueOf(SubSeq(b, i - Step(i) + 1, i)) * c + carry) \div 2^Step(i),
                  LastBits((ValueOf(SubSeq(b, i - Step(i) + 1, i)) * c + carry) % 2^Step(i),
                         Step(i)) \o acc)

\* the exact product p * 2^(exp - 52), rounded to the significand
RoundProduct(exp, p) ==
    Rounded(exp + Len(p) - MantissaBits, SubSeq(p, 1, MantissaBits),
            /\ Len(p) > MantissaBits
            /\ p[MantissaBits + 1] = 1
            /\ \/ p[MantissaBits] = 1
               \/ \E i \in (MantissaBits + 2)..Len(p) : p[i] = 1)

\* c * x, for a small int c > 0 and a float x: float.__rmul__
IntMulFloat(c, x) ==
    IF x.zero THEN FZero
    ELSE RoundProduct(x.exp, MulSmall(x.man, c, MantissaBits, 0, <<>>))

(***************************************************************************)
(* The stage models (models/stage1.py, models/stage3.py).                  *)
(***************************************************************************)
\* class Subject
Subject ==
    BaseModel(<<Field("subject_code", "subjectCode", StrMin(1)),
                Field("short_code", "shortCode", StrMin(1)),
                Field("title", "title", StrMin(1)),
                WithValidator(Field("credit_pattern", "creditPattern",
                                    ListLen(IntT, 3, 3)),
                              "validate_credit_pattern"),
                Field("total_credits", "totalCredits", IntGe(0)),
                Field("department", "department", StrT),
                Field("semester", "semester", IntIn(1, 8)),
                Field("is_elective", "isElective", BoolT),
                Field("type", "type", Literal({"core", "elective"}))>>,
              "forbid", "validate_total_credits")

\* Faculty.get_all_subject_codes that also collects the section names.
get_all_subject_codes_with_sections(self) ==
    {self.supporting_subjects[i].s : i \in 1..Len(self.supporting_subjects)}
        \cup {self.assigned_subjects[i].s :
                 i \in {j \in 1..Len(self.assigned_subjects) :
                           self.assigned_subjects[j].t = "str"}}
        \cup UNION {{self.assigned_subjects[i].k[j] :
                        j \in 1..Len(self.assigned_subjects[i].k)} :
                       i \in {m \in 1..Len(self.assigned_subjects) :
                                 self.assigned_subjects[m].t = "obj"}}
        \cup UNION {UNION {{self.assigned_subjects[i].a[j].a[n].s :
                               n \in 1..Len(self.assigned_subjects[i].a[j].a)} :
                              j \in 1..Len(self.assigned_subjects[i].a)} :
                       i \in {m \in 1..Len(self.assigned_subjects) :
                                 self.assigned_subjects[m].t = "obj"}}

\* Faculty.get_all_subject_codes: codes = set(supporting_subjects), then
\* add() of each str entry and update() with the keys of each dict entry
get_all_subject_codes(self) ==
    {self.supporting_subjects[i].s : i \in 1..Len(self.supporting_subjects)}
        \cup {self.assigned_subjects[i].s :
                 i \in {j \in 1..Len(self.assigned_subjects) :
                           self.assigned_subjects[j].t = "str"}}
        \cup UNION {{self.assigned_subjects[i].k[j] :
                        j \in 1..Len(self.assigned_subjects[i].k)} :
                       i \in {m \in 1..Len(self.assigned_subjects) :
                                 self.assigned_subjects[m].t = "obj"}}

\* class StudentGroupOverlapConstraints
StudentGroupOverlapConstraints ==
    BaseModel(<<Field("cannot_overlap_with", "cannotOverlapWith",
                      DictOf(ListOf(StrT))),
                Field("can_run_parallel_with", "canRunParallelWith",
                      DictOf(ListOf(StrT)))>>,
              "forbid", "")

\* class AssignmentConstraints
AssignmentConstraints ==
    BaseModel(<<FieldDefault("student_group_conflicts", "studentGroupConflicts",
                             ListOf(StrT), Arr(<<>>)),
                FieldDefault("faculty_conflicts", "facultyConflicts",
                             ListOf(StrT), Arr(<<>>)),
                FieldDefault("fixed_day", "fixedDay", Optional(StrT), Null),
                FieldDefault("fixed_slot", "fixedSlot", Optional(StrT), Null),
                FieldDefault("must_be_in_room", "mustBeInRoom", Optional(StrT), Null)>>,
              "forbid", "")

\* class TeachingAssignment
TeachingAssignment ==
    BaseModel(<<Field("assignment_id", "assignmentId", StrMin(1)),
                Field("subject_code", "subjectCode", StrMin(1)),
                Field("short_code", "shortCode", StrMin(1)),
                Field("subject_title", "subjectTitle", StrMin(1)),
                Field("component_id", "componentId", StrMin(1)),
                Field("component_type", "componentType",
                      Literal({"theory", "tutorial", "practical"})),
                Field("semester", "semester", IntIn(1, 8)),
                Field("faculty_id", "facultyId", StrMin(1)),
                Field("faculty_name", "facultyName", StrMin(1)),
                Field("student_group_ids", "studentGroupIds", ListOf(StrT)),
                Field("sections", "sections", ListOf(StrT)),
                Field("session_duration", "sessionDuration", IntGe(1)),
                Field("sessions_per_week", "sessionsPerWeek", IntGe(0)),
                Field("requires_room_type", "requiresRoomType",
                      Literal({"lecture", "lab"})),
                FieldDefault("preferred_rooms", "preferredRooms", ListOf(StrT),
                             Arr(<<>>)),
                Field("requires_contiguous", "requiresContiguous", BoolT),
                Field("block_size_slots", "blockSizeSlots", IntGe(1)),
                Field("priority", "priority", Literal({"high", "medium", "low"})),
                Field("is_elective", "isElective", BoolT),
                Field("is_diff_subject", "isDiffSubject", BoolT),
                Field("constraints", "constraints", AssignmentConstraints)>>,
              "forbid", "")

\* TeachingAssignment.weekly_hours
weekly_hours(self) ==
    TrueDiv(Get(self, "session_duration").n * Get(self, "sessions_per_week").n, 60)

\* class ComponentStats
ComponentStats ==
    BaseModel(<<Field("count", "count", IntGe(0)),
                Field("sessions", "sessions", IntGe(0)),
                Field("hours", "hours", FloatGe(0))>>,
              "forbid", "")

\* class TypeStats
TypeStats ==
    BaseModel(<<Field("count", "count", IntGe(0)),
                Field("sessions", "sessions", IntGe(0)),
                FieldDefault("hours", "hours", Optional(FloatT), Null)>>,
              "forbid", "")

\* dict.get(key, [])
DictGetList(o, key) == IF Has(o, key) THEN Get(o, key) ELSE Arr(<<>>)

\* x in list
InList(x, list) == \E i \in 1..Len(list.a) : list.a[i] = x

\* A can_schedule_together that looks only at the first group's conflicts.
can_schedule_together_one_way(self, group1, group2) ==
    ~InList(Str(group2), DictGetList(Get(self, "cannot_overlap_with"), group1))

\* StudentGroupOverlapConstraints.can_schedule_together
can_schedule_together(self, group1, group2) ==
    LET conflicts1 == DictGetList(Get(self, "cannot_overlap_with"), group1)
        conflicts2 == DictGetList(Get(self, "cannot_overlap_with"), group2)
    IN ~InList(Str(group2), conflicts1) /\ ~InList(Str(group1), conflicts2)

(***************************************************************************)
(* The loader (core/loader.py): load_json, validate_model,                 *)
(* load_and_validate, and the DataLoader with its per-path cache.          *)
(***************************************************************************)
LReturns(c) == [kind |-> "return", val |-> Null, model |-> <<>>, exc |-> NoExc, cache |-> c]

LRaises(e, c) == [kind |-> "raise", val |-> Null, model |-> <<>>, exc |-> e, cache |-> c]

load_json(d, filepath) ==
    IF ~Exists(d, filepath)
    THEN LRaises(DataLoadError(<<"File", "not", "found", ":", filepath>>, filepath, <<>>),
                 <<>>)
    ELSE IF ~IsFile(d, filepath)
    THEN LRaises(DataLoadError(<<"Path", "is", "not", "a", "file", ":", filepath>>,
                               filepath, <<>>), <<>>)
    ELSE LET j == JsonLoad(At(d, filepath).text)
         IN IF j.exc = "none" THEN [LReturns(<<>>) EXCEPT !.val = j.v]
            ELSE LRaises(DataLoadError(<<"Invalid", "JSON", "in", "file", ":", j.exc>>,
                                       filepath, <<>>), <<>>)

validate_model(data, filepath) ==
    IF FacultyFileAccepts(data)
    THEN [LReturns(<<>>) EXCEPT !.model = FacultyFile(data)]
    ELSE LRaises(ValidationError(<<"Validation", "failed", "for", "FacultyFile">>, "",
                                 IF filepath # NoPath THEN <<<<"filepath", filepath>>>>
                                 ELSE <<>>),
                 <<>>)

load_and_validate(d, filepath) ==
    LET j == load_json(d, filepath)
    IN IF j.kind = "raise" THEN j ELSE validate_model(j.val, filepath)

FacultyPath == "stage_1/facultyBasic.json"

\* DataLoader.load_faculty: the cached result of the path, else the file.
load_faculty(c, d) ==
    IF FacultyPath \in DOMAIN c
    THEN [LReturns(c) EXCEPT !.model = c[FacultyPath]]
    ELSE LET r == load_and_validate(d, FacultyPath)
         IN IF r.kind = "raise" THEN [r EXCEPT !.cache = c]
            ELSE [r EXCEPT !.cache = [p \in DOMAIN c \cup {FacultyPath} |->
                                          IF p = FacultyPath THEN r.model ELSE c[p]]]

\* A clear_cache that clears nothing.
loader_clear_cache_noop(c) == c

\* DataLoader.clear_cache: the cache it leaves
loader_clear_cache(c) == [p \in {} |-> <<>>]

(***************************************************************************)
(* Documents and file contents the model draws from.                       *)
(***************************************************************************)
MaxItems == 2

SchemaNames == {"faculty", "custom"}

DataPaths == {"stage_1/facultyBasic.json"}

Paths == {SchemaPath(n) : n \in SchemaNames} \cup DataPaths

StringSchema == Obj(<<"type">>, <<Str("string")>>)

\* The shape of stage1/faculty.schema.json that the tests rely on.
FacultySchema ==
    Obj(<<"type", "required", "properties">>,
        <<Str("object"),
          Arr(<<Str("faculty")>>),
          Obj(<<"faculty">>,
              <<Obj(<<"type", "items">>,
                    <<Str("array"),
                      Obj(<<"type", "required", "properties">>,
                          <<Str("object"),
                            Arr(<<Str("facultyId"), Str("name")>>),
                            Obj(<<"facultyId", "name">>,
                                <<StringSchema, StringSchema>>)>>)>>)>>)>>)

\* A schema that differs: other key order, "name" also required at the top.
CustomSchema ==
    Obj(<<"required", "properties", "type">>,
        <<Arr(<<Str("name"), Str("faculty")>>),
          Obj(<<"name", "faculty">>,
              <<StringSchema,
                Obj(<<"items">>,
                    <<Obj(<<"required">>, <<Arr(<<Str("name")>>)>>)>>)>>),
          Str("object")>>)

FullItem == Obj(<<"facultyId", "name">>, <<Str("F001"), Str("Dr. Test")>>)

NoIdItem == Obj(<<"name">>, <<Str("Test")>>)

NoNameItem == Obj(<<"facultyId">>, <<Str("F001")>>)

BadNameItem == Obj(<<"facultyId", "name">>, <<Str("F001"), Num(5)>>)

Items == {FullItem, NoIdItem, NoNameItem, BadNameItem, Obj(<<>>, <<>>), Num(7)}

FacultyDoc(items) == Obj(<<"faculty">>, <<Arr(items)>>)

ItemSeqs(n) == UNION {[1..m -> Items] : m \in 0..n}

\* A faculty list long enough to have a two-digit index: only the last two
\* entries are wrong.
LongDoc ==
    FacultyDoc([i \in 1..11 |-> IF i < 10 THEN FullItem ELSE NoIdItem])

DataDocs ==
    {FacultyDoc(s) : s \in ItemSeqs(MaxItems)}
        \cup {LongDoc,
              Obj(<<>>, <<>>),
              Arr(<<>>),
              Obj(<<"name", "faculty">>, <<Str("MCA"), Arr(<<FullItem>>)>>),
              Obj(<<"name", "faculty">>, <<Num(1), Arr(<<Num(7), Obj(<<>>, <<>>)>>)>>)}

GoodDoc == FacultyDoc(<<FullItem>>)

BadDoc == FacultyDoc(<<NoIdItem>>)

\* "{ invalid json }"
NotJsonText == <<Tok("{"), TWord("invalid"), TWord("json"), Tok("}")>>

\* Bytes that are not UTF-8 at all.
BadBytesText == <<Tok("badbyte")>>

\* A file cut short while being written.
Truncated(text) == SubSeq(text, 1, Len(text) - 1)

SchemaTexts ==
    {Dumps(FacultySchema), Dumps(CustomSchema), Truncated(Dumps(FacultySchema)),
     BadBytesText}

DataTexts == {Dumps(GoodDoc), Dumps(BadDoc), NotJsonText, BadBytesText}

TextsFor(p) == IF p \in DataPaths THEN DataTexts ELSE SchemaTexts

(***************************************************************************)
(* The validator as a state machine: calls on one SchemaValidator, and the *)
(* outside world changing files between the calls.                         *)
(***************************************************************************)
LIdle ==
    [op |-> "none", path |-> NoPath, arg |-> Null, kind |-> "none", val |-> Null,
     model |-> <<>>, exc |-> NoExc]

Idle ==
    [op |-> "none", name |-> "", path |-> NoPath, kind |-> "none", obj |-> NoObj,
     errs |-> <<>>, paths |-> <<>>, flag |-> FALSE, exc |-> NoExc, opened |-> <<>>]

\* What the caller sees of an outcome.
Seen(op, name, path, o) ==
    [op |-> op, name |-> name, path |-> path, kind |-> o.kind, obj |-> o.obj,
     errs |-> o.errs, paths |-> o.paths, flag |-> o.flag, exc |-> o.exc,
     opened |-> o.opened]

\* Objects the caller still holds.
Live == IF ret.obj.id = 0 THEN {} ELSE {ret.obj.id}

loaderVars == <<_cache, lret>>

Call(op, name, path, o) ==
    /\ ret' = Seen(op, name, path, o)
    /\ _schema_cache' = o.cache
    /\ UNCHANGED <<disk, input, loaderVars>>

GetSchema(name) ==
    Call("get_schema", name, NoPath, get_schema(_schema_cache, disk, Live, name))

ValidateData(data, name) ==
    Call("validate_data", name, NoPath,
         validate_data(_schema_cache, disk, Live, data, name))

ValidateFile(path, name) ==
    Call("validate_file", name, path,
         validate_file(_schema_cache, disk, Live, path, name))

IsValid(data, name) ==
    Call("is_valid", name, NoPath, is_valid(_schema_cache, disk, Live, data, name))

IsFileValid(path, name) ==
    Call("is_file_valid", name, path,
         is_file_valid(_schema_cache, disk, Live, path, name))

ClearCache ==
    /\ _schema_cache' = clear_cache(_schema_cache)
    /\ ret' = [Idle EXCEPT !.op = "clear_cache", !.kind = "return"]
    /\ UNCHANGED <<disk, input, loaderVars>>

\* The outside world: a file is written, removed, or replaced by a directory.
WriteFile(p, text) ==
    /\ disk' = [disk EXCEPT ![p] = File(text)]
    /\ ret' = Idle
    /\ lret' = LIdle
    /\ UNCHANGED <<_schema_cache, input, _cache>>

RemoveFile(p) ==
    /\ disk' = [disk EXCEPT ![p] = Missing]
    /\ ret' = Idle
    /\ lret' = LIdle
    /\ UNCHANGED <<_schema_cache, input, _cache>>

MakeDir(p) ==
    /\ disk' = [disk EXCEPT ![p] = Dir]
    /\ ret' = Idle
    /\ lret' = LIdle
    /\ UNCHANGED <<_schema_cache, input, _cache>>

NoInput == [name |-> "", data |-> Null]

Init ==
    /\ disk = [p \in Paths |->
                 IF p = SchemaPath("faculty") THEN File(Dumps(FacultySchema))
                 ELSE IF p \in DataPaths THEN File(Dumps(GoodDoc))
                 ELSE Missing]
    /\ _schema_cache = <<>>
    /\ ret = Idle
    /\ input = NoInput
    /\ _cache = <<>>
    /\ lret = LIdle

Next ==
    \/ \E n \in SchemaNames : GetSchema(n)
    \/ \E n \in SchemaNames : \E data \in {GoodDoc, BadDoc} : ValidateData(data, n)
    \/ \E n \in SchemaNames : \E p \in DataPaths : ValidateFile(p, n)
    \/ \E n \in SchemaNames : \E data \in {GoodDoc, BadDoc} : IsValid(data, n)
    \/ \E n \in SchemaNames : \E p \in DataPaths : IsFileValid(p, n)
    \/ ClearCache
    \/ \E p \in Paths : MakeDir(p)
    \/ \E p \in Paths : RemoveFile(p)
    \/ \E p \in Paths : \E text \in TextsFor(p) : WriteFile(p, text)

Spec == Init /\ [][Next]_vars

(***************************************************************************)
(* Properties of the schema cache and of file validation.                  *)
(***************************************************************************)
SchemaFileOf(n) == At(disk, SchemaPath(n))

ValidJson(f) == f.kind = "file" /\ JsonLoad(f.text).exc = "none"

NotValidJson(f) == f.kind = "file" /\ JsonLoad(f.text).exc # "none"

RaisedDataLoadError(r) == r.kind = "raise" /\ r.exc.type = "DataLoadError"

Mentions(r, phrase) == Contains(Lower(ExcStr(r.exc)), phrase)

\* C4: once get_schema(name) has succeeded, the object it returned is the
\* cache entry of name; the entry stays the same object until clear_cache();
\* and get_schema(name) on a cached name returns that very object without
\* opening any file, whatever the schema file has become in the meantime.
C4_CachedSchemaIsReused ==
    [][\A n \in SchemaNames :
          /\ (ret'.op = "get_schema" /\ ret'.name = n /\ n \in DOMAIN _schema_cache)
                => /\ ret'.kind = "return"
                   /\ ret'.obj = _schema_cache[n]
                   /\ ret'.opened = <<>>
          /\ (ret'.op = "get_schema" /\ ret'.name = n /\ ret'.kind = "return")
                => /\ n \in DOMAIN _schema_cache'
                   /\ _schema_cache'[n] = ret'.obj
          /\ (n \in DOMAIN _schema_cache /\ ret'.op # "clear_cache")
                => /\ n \in DOMAIN _schema_cache'
                   /\ _schema_cache'[n] = _schema_cache[n]]_vars

\* C4 witness: get_schema answered from the cache although the schema file
\* no longer holds the document returned (changed, corrupted or deleted).
C4_Witness ==
    /\ ret.op = "get_schema"
    /\ ret.kind = "return"
    /\ ret.opened = <<>>
    /\ LET f == SchemaFileOf(ret.name)
       IN ~ValidJson(f) \/ JsonLoad(f.text).v # ret.obj.doc

\* C5: clear_cache() leaves the cache empty, and the first get_schema(name)
\* after it reads the schema file again: it returns the file's current
\* content, or raises DataLoadError if the file was removed or corrupted.
C5_ClearCacheForcesReload ==
    [][/\ (ret'.op = "clear_cache" => DOMAIN _schema_cache' = {})
       /\ \A n \in SchemaNames :
             (ret'.op = "get_schema" /\ ret'.name = n /\ DOMAIN _schema_cache = {})
                => LET f == SchemaFileOf(n)
                   IN /\ ValidJson(f)
                            => /\ ret'.kind = "return"
                               /\ ret'.obj.doc = JsonLoad(f.text).v
                               /\ ret'.opened = <<SchemaPath(n)>>
                      /\ (f.kind = "missing" \/ NotValidJson(f))
                            => RaisedDataLoadError(ret')]_vars

\* C6: get_schema(name) raises DataLoadError whenever the schema file is
\* absent (then mentioning "not found") or is not valid JSON, and the failed
\* call leaves the cache as it was; once the file is right again the call
\* succeeds.
C6_FailedLoadRaisesDataLoadError ==
    [][\A n \in SchemaNames :
          (ret'.op = "get_schema" /\ ret'.name = n /\ n \notin DOMAIN _schema_cache)
             => LET f == SchemaFileOf(n)
                IN /\ f.kind = "missing"
                         => /\ RaisedDataLoadError(ret')
                            /\ Mentions(ret', <<"not", "found">>)
                            /\ _schema_cache' = _schema_cache
                   /\ NotValidJson(f)
                         => /\ RaisedDataLoadError(ret')
                            /\ _schema_cache' = _schema_cache
                   /\ ValidJson(f) => ret'.kind = "return"]_vars

\* C9: validate_file raises DataLoadError for every failure to read or parse
\* the data file (missing: "not found"; a directory; not JSON: "json"), and
\* never raises for schema-rule violations, which are returned.
C9_FileFailuresAreDataLoadErrors ==
    [][\A p \in DataPaths : \A n \in SchemaNames :
          (ret'.op = "validate_file" /\ ret'.path = p /\ ret'.name = n)
             => LET f == At(disk, p)
                IN /\ f.kind = "missing"
                         => RaisedDataLoadError(ret') /\ Mentions(ret', <<"not", "found">>)
                   /\ f.kind = "dir" => RaisedDataLoadError(ret')
                   /\ NotValidJson(f)
                         => RaisedDataLoadError(ret') /\ Mentions(ret', <<"json">>)
                   /\ (ValidJson(f) /\ (n \in DOMAIN _schema_cache \/ ValidJson(SchemaFileOf(n))))
                         => ret'.kind = "return"]_vars

\* C10: is_file_valid returns a boolean for every path and never raises:
\* false when the file cannot be read (missing, a directory, not JSON), and
\* otherwise true exactly when validate_file returns no error.
C10_IsFileValidNeverRaises ==
    [][\A p \in DataPaths : \A n \in SchemaNames :
          (ret'.op = "is_file_valid" /\ ret'.path = p /\ ret'.name = n)
             => LET f == At(disk, p)
                    v == validate_file(_schema_cache, disk, Live, p, n)
                IN /\ ret'.kind = "return"
                   /\ ~ValidJson(f) => ~ret'.flag
                   /\ v.kind = "return" => (ret'.flag <=> v.errs = <<>>)]_vars

(***************************************************************************)
(* validate_data as a function of its arguments: the two schema files hold *)
(* their schemas, and each run is given one schema name and one document.  *)
(***************************************************************************)
InitValidate ==
    /\ disk = [p \in Paths |->
                 IF p = SchemaPath("faculty") THEN File(Dumps(FacultySchema))
                 ELSE IF p = SchemaPath("custom") THEN File(Dumps(CustomSchema))
                 ELSE Missing]
    /\ _schema_cache = <<>>
    /\ ret = Idle
    /\ input \in [name : SchemaNames, data : DataDocs]
    /\ _cache = <<>>
    /\ lret = LIdle

NextValidate ==
    \/ ValidateData(input.data, input.name)
    \/ IsValid(input.data, input.name)

ValidateSpec == InitValidate /\ [][NextValidate]_vars

\* The schema document the named schema file holds.
SchemaOnDisk(n) == JsonLoad(SchemaFileOf(n).text).v

\* Draft 7 satisfaction, stated keyword by keyword.
RECURSIVE Satisfies(_, _)
Satisfies(schema, inst) ==
    \A i \in 1..Len(schema.k) :
        LET k == schema.k[i]
            v == schema.a[i]
        IN CASE k = "type" ->
                    LET ts == IF v.t = "arr" THEN v.a ELSE <<v>>
                    IN \E j \in 1..Len(ts) : IsType(inst, ts[j].s)
             [] k = "required" ->
                    inst.t = "obj" => \A j \in 1..Len(v.a) : Has(inst, v.a[j].s)
             [] k = "properties" ->
                    inst.t = "obj" =>
                        \A j \in 1..Len(v.k) :
                            Has(inst, v.k[j]) => Satisfies(v.a[j], Get(inst, v.k[j]))
             [] k = "items" ->
                    inst.t = "arr" => \A j \in 1..Len(inst.a) : Satisfies(v, inst.a[j])
             [] OTHER -> TRUE

\* The required properties the data lacks: where (the path of the object
\* that lacks it) and which property.
RECURSIVE Lacking(_, _, _)
Lacking(schema, inst, at) ==
    UNION {LET k == schema.k[i]
               v == schema.a[i]
           IN CASE k = "required" /\ inst.t = "obj" ->
                       {[path |-> at, prop |-> v.a[j].s] :
                            j \in {j \in 1..Len(v.a) : ~Has(inst, v.a[j].s)}}
                [] k = "properties" /\ inst.t = "obj" ->
                       UNION {Lacking(v.a[j], Get(inst, v.k[j]), Append(at, Key(v.k[j]))) :
                                  j \in {j \in 1..Len(v.k) : Has(inst, v.k[j])}}
                [] k = "items" /\ inst.t = "arr" ->
                       UNION {Lacking(v, inst.a[j], Append(at, Idx(j - 1))) :
                                  j \in 1..Len(inst.a)}
                [] OTHER -> {}
           : i \in 1..Len(schema.k)}

\* The error names the missing property and where it is missing.
Identifies(e, l) ==
    /\ e.message = <<l.prop, "is", "a", "required", "property">>
    /\ e.path = Dotted(l.path)

ValidatedInput == ret.op = "validate_data" /\ ret.name = input.name

\* C7 as claimed: validate_data returns the empty list exactly when the
\* data satisfies the schema; when the data lacks a required property the
\* result is non-empty and its FIRST error identifies the missing property;
\* is_valid is true exactly when validate_data returns the empty list.
C7_FirstErrorIsMissingProperty ==
    LET schema == SchemaOnDisk(input.name)
        lacking == Lacking(schema, input.data, <<>>)
    IN /\ ValidatedInput =>
            /\ ret.kind = "return"
            /\ ret.errs = <<>> <=> Satisfies(schema, input.data)
            /\ lacking # {} =>
                  /\ ret.errs # <<>>
                  /\ \E l \in lacking : Identifies(ret.errs[1], l)
       /\ (ret.op = "is_valid" /\ ret.name = input.name) =>
            /\ ret.kind = "return"
            /\ ret.flag <=> Satisfies(schema, input.data)

\* C7 as amended: validate_data returns the empty list exactly when the
\* data satisfies the schema; for every required property the data lacks,
\* the result holds an error that identifies it (not necessarily the first
\* one); is_valid is true exactly when validate_data returns the empty list.
C7_SomeErrorIsMissingProperty ==
    LET schema == SchemaOnDisk(input.name)
        lacking == Lacking(schema, input.data, <<>>)
    IN /\ ValidatedInput =>
            /\ ret.kind = "return"
            /\ ret.errs = <<>> <=> Satisfies(schema, input.data)
            /\ \A l \in lacking :
                  \E i \in 1..Len(ret.errs) : Identifies(ret.errs[i], l)
       /\ (ret.op = "is_valid" /\ ret.name = input.name) =>
            /\ ret.kind = "return"
            /\ ret.flag <=> Satisfies(schema, input.data)
            /\ ret.flag <=>
                  validate_data(_schema_cache, disk, Live, input.data, input.name).errs = <<>>

\* C7 witness: validate_data has returned errors for data that lacks a
\* required property, and the first of them is about something else.
C7_Witness ==
    LET lacking == Lacking(SchemaOnDisk(input.name), input.data, <<>>)
    IN /\ ValidatedInput
       /\ ret.kind = "return"
       /\ lacking # {}
       /\ \A l \in lacking : ~Identifies(ret.errs[1], l)

StaffItem ==
    Obj(<<"facultyId", "name", "designation">>,
        <<Str("F001"), Str("Dr. Test"), Str("Professor")>>)

StaffDoc == FacultyDoc(<<StaffItem>>)

\* The same file after an edit: a second member, keys in another order.
StaffDoc2 ==
    FacultyDoc(<<StaffItem,
                 Obj(<<"name", "designation", "facultyId", "supportingSubjects">>,
                     <<Str("Test"), Str("Lecturer"), Str("F002"),
                       Arr(<<Str("CS102")>>)>>)>>)

LoaderDocs == {StaffDoc, StaffDoc2, GoodDoc, Arr(<<Num(1), Null>>), Num(42)}

LoaderTexts ==
    {Dumps(v) : v \in LoaderDocs}
        \cup {NotJsonText, BadBytesText, Truncated(Dumps(StaffDoc)),
              Dumps(StaffDoc) \o <<Tok("}")>>}

LSeen(op, path, arg, o) ==
    [op |-> op, path |-> path, arg |-> arg, kind |-> o.kind, val |-> o.val,
     model |-> o.model, exc |-> o.exc]

LCall(op, path, arg, o) ==
    /\ lret' = LSeen(op, path, arg, o)
    /\ UNCHANGED <<disk, _schema_cache, ret, input>>

LoadJson(p) == LCall("load_json", p, Null, load_json(disk, p)) /\ UNCHANGED _cache

ValidateModel(data, filepath) ==
    LCall("validate_model", filepath, data, validate_model(data, filepath))
        /\ UNCHANGED _cache

LoadAndValidate(p) ==
    LCall("load_and_validate", p, Null, load_and_validate(disk, p)) /\ UNCHANGED _cache

LoadFaculty ==
    LET o == load_faculty(_cache, disk)
    IN LCall("load_faculty", FacultyPath, Null, o) /\ _cache' = o.cache

LoaderClearCache ==
    /\ _cache' = loader_clear_cache(_cache)
    /\ lret' = [LIdle EXCEPT !.op = "clear_cache", !.kind = "return"]
    /\ UNCHANGED <<disk, _schema_cache, ret, input>>

NextLoader ==
    \/ \E p \in DataPaths : LoadJson(p)
    \/ \E data \in LoaderDocs : \E fp \in {NoPath, FacultyPath} : ValidateModel(data, fp)
    \/ \E p \in DataPaths : LoadAndValidate(p)
    \/ LoadFaculty
    \/ LoaderClearCache
    \/ \E p \in DataPaths : MakeDir(p)
    \/ \E p \in DataPaths : RemoveFile(p)
    \/ \E p \in DataPaths : \E text \in LoaderTexts : WriteFile(p, text)

LoaderSpec == Init /\ [][NextLoader]_vars

(***************************************************************************)
(* Properties of the loader.                                               *)
(***************************************************************************)
\* C1: load_json classifies every outcome: a file holding well-formed JSON
\* gives a value deep-equal to the document written there; a missing path
\* raises DataLoadError mentioning "not found", a directory one mentioning
\* "not a file", content that is not JSON one mentioning "json"; every
\* failure is a DataLoadError that carries a filepath.
C1_LoadJsonClassifiesOutcomes ==
    lret.op = "load_json" =>
        LET f == At(disk, lret.path)
        IN /\ f.kind = "missing" =>
                RaisedDataLoadError(lret) /\ Mentions(lret, <<"not", "found">>)
           /\ f.kind = "dir" =>
                RaisedDataLoadError(lret) /\ Mentions(lret, <<"not", "a", "file">>)
           /\ NotValidJson(f) =>
                RaisedDataLoadError(lret) /\ Mentions(lret, <<"json">>)
           /\ \A v \in LoaderDocs :
                (f.kind = "file" /\ f.text = Dumps(v)) =>
                    lret.kind = "return" /\ DeepEq(lret.val, v)
           /\ ValidJson(f) => lret.kind = "return"
           /\ lret.kind = "raise" =>
                lret.exc.type = "DataLoadError" /\ lret.exc.filepath # NoPath

\* C1 witness: load_json has failed on a file whose content is not JSON.
C1_Witness ==
    /\ lret.op = "load_json"
    /\ lret.kind = "raise"
    /\ NotValidJson(At(disk, lret.path))

\* C2: load_and_validate raises DataLoadError for a missing file or one
\* that is not JSON; well-formed JSON that does not fit the model raises
\* the timetable ValidationError (a TimetableError, not a DataLoadError),
\* from load_and_validate and from validate_model alike, and when a
\* filepath is given the error's details hold it under "filepath".
C2_LoadErrorsAndModelErrors ==
    /\ lret.op = "load_and_validate" =>
          LET f == At(disk, lret.path)
          IN /\ (f.kind = "missing" \/ NotValidJson(f)) => RaisedDataLoadError(lret)
             /\ (ValidJson(f) /\ ~FacultyFileAccepts(JsonLoad(f.text).v)) =>
                   /\ lret.kind = "raise"
                   /\ lret.exc.type = "ValidationError"
                   /\ IsTimetableError(lret.exc)
                   /\ DetailsGet(lret.exc, "filepath") = lret.path
             /\ (ValidJson(f) /\ FacultyFileAccepts(JsonLoad(f.text).v)) =>
                   lret.kind = "return"
    /\ lret.op = "validate_model" =>
          /\ FacultyFileAccepts(lret.arg) => lret.kind = "return"
          /\ ~FacultyFileAccepts(lret.arg) =>
                /\ lret.kind = "raise"
                /\ lret.exc.type = "ValidationError"
                /\ IsTimetableError(lret.exc)
                /\ lret.path # NoPath => DetailsGet(lret.exc, "filepath") = lret.path

\* C2 witness: load_and_validate has rejected well-formed JSON that does
\* not fit the model.
C2_Witness ==
    /\ lret.op = "load_and_validate"
    /\ lret.kind = "raise"
    /\ ValidJson(At(disk, lret.path))

\* C3: clear_cache() leaves no cached entry, and a load made while nothing
\* is cached returns what the file holds now: the model of the document
\* written there, or the error of reading it.
C3_ClearCacheForcesReread ==
    [][/\ (lret'.op = "clear_cache" => DOMAIN _cache' = {})
       /\ (lret'.op = "load_faculty" /\ DOMAIN _cache = {}) =>
             LET f == At(disk, FacultyPath)
             IN /\ \A v \in LoaderDocs :
                      (f.kind = "file" /\ f.text = Dumps(v) /\ FacultyFileAccepts(v)) =>
                          lret'.kind = "return" /\ lret'.model = FacultyFile(v)
                /\ ~ValidJson(f) => RaisedDataLoadError(lret')]_vars

\* C3 witness: a load has returned the edited faculty file, which is not
\* what the file held at first.
C3_Witness ==
    /\ lret.op = "load_faculty"
    /\ lret.kind = "return"
    /\ lret.model = FacultyFile(StaffDoc2)
    /\ DOMAIN _cache # {}

(***************************************************************************)
(* The stage models as functions of their input: each run is given one     *)
(* operation and its argument, and applies it.                             *)
(***************************************************************************)
MaxCredit == 2

\* Model.model_validate(data): the instance, or pydantic's ValidationError
Constructed(r) ==
    IF r.ok THEN [LReturns(<<>>) EXCEPT !.model = r.v]
    ELSE LRaises(BuiltinError("pydantic.ValidationError", NoPath), <<>>)

model_validate(ty, data) == Constructed(Validate(ty, data))

ModelTypes ==
    [Subject |-> Subject, TeachingAssignment |-> TeachingAssignment,
     StudentGroupOverlapConstraints |-> StudentGroupOverlapConstraints,
     ComponentStats |-> ComponentStats, TypeStats |-> TypeStats]

\* json.loads(m.model_dump_json(by_alias=True)), validated as the same type
Reparsed(ty, m) == Validate(ty, JsonLoad(Dumps(Dump(ty, m))).v)

AfterReparse(m, r) ==
    IF r.ok THEN [LReturns(<<>>) EXCEPT !.model = m, !.val = r.v]
    ELSE [Constructed(r) EXCEPT !.model = m]

\* the round trip of the instance built from the data
RoundTripOf(ty, r) ==
    IF r.ok THEN AfterReparse(r.v, Reparsed(ty, r.v)) ELSE Constructed(r)

\* The subject of the tests, with a credit pattern and a total of choice.
SubjectDoc(pattern, total) ==
    Obj(<<"subjectCode", "shortCode", "title", "creditPattern", "totalCredits",
          "department", "semester", "isElective", "type">>,
        <<Str("CS101"), Str("CS"), Str("Test"), Arr(pattern), total, Str("MCA"),
          Num(1), Bool(FALSE), Str("core")>>)

Credits == {Num(n) : n \in (-1)..MaxCredit}

CreditPatterns ==
    [1..3 -> Credits]
        \cup {<<>>, <<Num(1), Num(1)>>, <<Num(1), Num(0), Num(0), Num(0)>>,
              <<Num(1), Bool(TRUE), Str("2")>>, <<Float(2), Num(0), Num(0)>>,
              <<Num(1), Null, Num(0)>>, <<Num(1), Str("x"), Num(0)>>}

Totals ==
    {Num(n) : n \in (-1)..(3 * MaxCredit + 1)} \cup {Str("4"), Bool(TRUE), Null}

SubjectDocs ==
    {SubjectDoc(p, t) : p \in CreditPatterns, t \in Totals}
        \cup {DictSet(SubjectDoc(<<Num(1), Num(0), Num(0)>>, Num(1)), "semester", Num(9)),
              DictSet(SubjectDoc(<<Num(1), Num(0), Num(0)>>, Num(1)), "type", Str("lab")),
              DictSet(SubjectDoc(<<Num(1), Num(0), Num(0)>>, Num(1)), "credits", Num(1)),
              DictSet(SubjectDoc(<<Num(1), Num(0), Num(0)>>, Num(1)), "title", Str("")),
              Obj(<<"subjectCode">>, <<Str("CS101")>>),
              Arr(<<>>)}

\* The groups the overlap constraints are asked about; "G9" is in no file.
GroupIds == {"G1", "G2", "G9"}

\* The conflict lists one group can carry.
ConflictLists ==
    {<<>>, <<Str("G1")>>, <<Str("G2")>>, <<Str("G9")>>, <<Str("G2"), Str("G1")>>}

\* A dict of the given keys and lists; an entry of NoList is left out.
NoList == <<Null>>

GroupMap(l1, l2) ==
    CASE l1 = NoList /\ l2 = NoList -> Obj(<<>>, <<>>)
      [] l1 = NoList /\ l2 # NoList -> Obj(<<"G2">>, <<Arr(l2)>>)
      [] l1 # NoList /\ l2 = NoList -> Obj(<<"G1">>, <<Arr(l1)>>)
      [] OTHER -> Obj(<<"G1", "G2">>, <<Arr(l1), Arr(l2)>>)

CannotOverlapMaps ==
    {GroupMap(l1, l2) : l1 \in ConflictLists \cup {NoList},
                        l2 \in ConflictLists \cup {NoList}}

ParallelMaps ==
    {GroupMap(NoList, NoList), GroupMap(<<Str("G2")>>, NoList),
     GroupMap(<<Str("G2")>>, <<Str("G1")>>)}

OverlapDoc(cannot, parallel) ==
    Obj(<<"cannotOverlapWith", "canRunParallelWith">>, <<cannot, parallel>>)

\* self, group1 and group2 of one call of can_schedule_together
OverlapCalls ==
    {Obj(<<"self", "group1", "group2">>, <<OverlapDoc(c, p), Str(g1), Str(g2)>>) :
        c \in CannotOverlapMaps, p \in ParallelMaps, g1 \in GroupIds, g2 \in GroupIds}

\* The entries assignedSubjects can hold: a bare code, or a dict from codes
\* to section names.
AssignedEntries ==
    {Str("S1"), Str("S3"),
     Obj(<<"S2">>, <<Arr(<<Str("A"), Str("B")>>)>>),
     Obj(<<"S3", "S4">>, <<Arr(<<Str("A")>>), Arr(<<>>)>>),
     Obj(<<>>, <<>>)}

AssignedLists ==
    {<<>>} \cup {<<e>> : e \in AssignedEntries}
           \cup {<<e, f>> : e \in AssignedEntries, f \in AssignedEntries}

SupportingLists ==
    {<<>>, <<Str("S1")>>, <<Str("S5")>>, <<Str("S5"), Str("S1"), Str("S5")>>}

FacultyOf(assigned, supporting) ==
    Obj(<<"facultyId", "name", "designation", "assignedSubjects",
          "supportingSubjects">>,
        <<Str("F001"), Str("Dr. Test"), Str("Professor"), Arr(assigned),
          Arr(supporting)>>)

FacultyDocs ==
    {FacultyOf(a, s) : a \in AssignedLists, s \in SupportingLists}
        \cup {Obj(<<"facultyId", "name", "designation">>,
                  <<Str("F001"), Str("Dr. Test"), Str("Professor")>>),
              Obj(<<"facultyId", "name", "designation", "assignedSubjects">>,
                  <<Str("F001"), Str("Dr. Test"), Str("Professor"),
                    Arr(<<Str("S1")>>)>>),
              Obj(<<"facultyId", "name", "designation", "supportingSubjects">>,
                  <<Str("F001"), Str("Dr. Test"), Str("Professor"),
                    Arr(<<Str("S5")>>)>>)}

MaxDuration == 62

MaxSessions == 3

\* The assignment of the tests, with a session duration and a number of
\* sessions per week of choice.
AssignmentDoc(duration, sessions) ==
    Obj(<<"assignmentId", "subjectCode", "shortCode", "subjectTitle", "componentId",
          "componentType", "semester", "facultyId", "facultyName", "studentGroupIds",
          "sections", "sessionDuration", "sessionsPerWeek", "requiresRoomType",
          "preferredRooms", "requiresContiguous", "blockSizeSlots", "priority",
          "isElective", "isDiffSubject", "constraints">>,
        <<Str("TA_25MCA15_TH_B_001"), Str("25MCA15"), Str("DS"),
          Str("Data Structures"), Str("25MCA15_TH"), Str("theory"), Num(1),
          Str("MM"), Str("Dr M. Manjunath"), Arr(<<Str("MCA_SEM1_B")>>),
          Arr(<<Str("B")>>), Num(duration), Num(sessions), Str("lecture"),
          Arr(<<>>), Bool(FALSE), Num(1), Str("high"), Bool(FALSE), Bool(FALSE),
          Obj(<<"studentGroupConflicts", "facultyConflicts", "fixedDay",
                "fixedSlot", "mustBeInRoom">>,
              <<Arr(<<Str("MCA_SEM1_B")>>), Arr(<<Str("MM")>>), Null, Null, Null>>)>>)

AssignmentDocs ==
    {AssignmentDoc(d, n) : d \in 0..MaxDuration, n \in (-1)..MaxSessions}

\* The values the hours of a statistics record are given.
HoursValues == {Num(0), Num(3), Float(2), Str("1"), Num(-1), Inf, Null}

StatsDocs ==
    {Obj(<<"count", "sessions", "hours">>, <<Num(c), Num(n), h>>) :
        c \in {-1, 0, 4}, n \in {0, 12}, h \in HoursValues}
        \cup {Obj(<<"count", "sessions">>, <<Num(4), Num(12)>>),
              Obj(<<"count", "sessions", "hours", "rooms">>,
                  <<Num(4), Num(12), Num(11), Num(1)>>)}

\* A type and the data an instance of it is built from.
TypedDoc(name, doc) == Obj(<<"model", "data">>, <<Str(name), doc>>)

RoundTripDocs ==
    {TypedDoc("ComponentStats", d) : d \in StatsDocs}
        \cup {TypedDoc("TypeStats", d) : d \in StatsDocs}
        \cup {TypedDoc("Subject", SubjectDoc(p, t)) :
                 p \in {<<Num(3), Num(0), Num(1)>>, <<Num(1), Bool(TRUE), Str("2")>>,
                        <<Float(2), Num(0), Num(0)>>},
                 t \in {Num(4), Str("4"), Num(2)}}
        \cup {TypedDoc("TeachingAssignment", AssignmentDoc(d, n)) :
                 d \in {0, 55}, n \in {0, 3}}
        \cup {TypedDoc("StudentGroupOverlapConstraints", OverlapDoc(c, q)) :
                 c \in ParallelMaps, q \in ParallelMaps}

ModelInputs ==
    [name : {"Subject"}, data : SubjectDocs]
        \cup [name : {"can_schedule_together"}, data : OverlapCalls]
        \cup [name : {"get_all_subject_codes"}, data : FacultyDocs]
        \cup [name : {"weekly_hours"}, data : AssignmentDocs]
        \cup [name : {"round_trip"}, data : RoundTripDocs]

ModelValidate ==
    /\ input.name \in DOMAIN ModelTypes
    /\ LCall(input.name, NoPath, input.data,
             model_validate(ModelTypes[input.name], input.data))
    /\ UNCHANGED _cache

\* A Python set, as a result
SetOf(elems) == [t |-> "set", elems |-> elems]

\* the method called on the instance built from the data
CalledOn(r, result) ==
    IF r.ok THEN [LReturns(<<>>) EXCEPT !.model = r.v, !.val = result]
    ELSE Constructed(r)

\* StudentGroupOverlapConstraints(**self).can_schedule_together(group1, group2)
OverlapResult(r, group1, group2) ==
    CalledOn(r, IF r.ok THEN Bool(can_schedule_together(r.v, group1, group2))
                ELSE Null)

CanScheduleTogether ==
    /\ input.name = "can_schedule_together"
    /\ LCall(input.name, NoPath, input.data,
             OverlapResult(Validate(StudentGroupOverlapConstraints,
                                    Get(input.data, "self")),
                           Get(input.data, "group1").s, Get(input.data, "group2").s))
    /\ UNCHANGED _cache

\* Faculty(**data).get_all_subject_codes()
GetAllSubjectCodes ==
    /\ input.name = "get_all_subject_codes"
    /\ LCall(input.name, NoPath, input.data,
             IF FacultyAccepts(input.data)
             THEN [LReturns(<<>>) EXCEPT
                      !.model = Faculty(input.data),
                      !.val = SetOf(get_all_subject_codes(Faculty(input.data)))]
             ELSE Constructed(VFail))
    /\ UNCHANGED _cache

\* TeachingAssignment(**data).weekly_hours
WeeklyHoursOf(r) == CalledOn(r, IF r.ok THEN weekly_hours(r.v) ELSE Null)

WeeklyHours ==
    /\ input.name = "weekly_hours"
    /\ LCall(input.name, NoPath, input.data,
             WeeklyHoursOf(Validate(TeachingAssignment, input.data)))
    /\ UNCHANGED _cache

\* M.model_validate(json.loads(M.model_validate(data).model_dump_json(by_alias=True)))
RoundTrip ==
    /\ input.name = "round_trip"
    /\ LCall(input.name, NoPath, input.data,
             RoundTripOf(ModelTypes[Get(input.data, "model").s],
                         Validate(ModelTypes[Get(input.data, "model").s],
                                  Get(input.data, "data"))))
    /\ UNCHANGED _cache

InitModels ==
    /\ disk = [p \in Paths |-> Missing]
    /\ _schema_cache = <<>>
    /\ ret = Idle
    /\ input \in ModelInputs
    /\ _cache = <<>>
    /\ lret = LIdle

NextModels ==
    \/ ModelValidate
    \/ CanScheduleTogether
    \/ GetAllSubjectCodes
    \/ WeeklyHours
    \/ RoundTrip

ModelSpec == InitModels /\ [][NextModels]_vars

\* The integers a list of JSON numbers holds, summed.
RECURSIVE SumOf(_)
SumOf(a) == IF a = <<>> THEN 0 ELSE CoerceInt(Head(a)).v.n + SumOf(Tail(a))

\* The data names a total that is not the sum of the credit pattern it names.
TotalMismatch(data) ==
    /\ data.t = "obj" /\ Has(data, "creditPattern") /\ Has(data, "totalCredits")
    /\ Get(data, "creditPattern").t = "arr"
    /\ \A i \in 1..Len(Get(data, "creditPattern").a) :
          CoerceInt(Get(data, "creditPattern").a[i]).ok
    /\ CoerceInt(Get(data, "totalCredits")).ok
    /\ CoerceInt(Get(data, "totalCredits")).v.n # SumOf(Get(data, "creditPattern").a)

\* C16: every Subject that construction accepts has a credit pattern of
\* exactly three non-negative integers whose sum is its total_credits, and
\* data whose total differs from the sum of its pattern is always rejected
\* with a validation error.
C16_TotalCreditsIsSumOfPattern ==
    lret.op = "Subject" =>
        /\ lret.kind = "return" =>
              /\ Len(Get(lret.model, "credit_pattern").a) = 3
              /\ \A i \in 1..3 :
                    /\ Get(lret.model, "credit_pattern").a[i].t = "num"
                    /\ Get(lret.model, "credit_pattern").a[i].n >= 0
              /\ Get(lret.model, "total_credits").t = "num"
              /\ Get(lret.model, "total_credits").n =
                    Get(lret.model, "credit_pattern").a[1].n
                        + Get(lret.model, "credit_pattern").a[2].n
                        + Get(lret.model, "credit_pattern").a[3].n
        /\ TotalMismatch(lret.arg) =>
              /\ lret.kind = "raise"
              /\ lret.exc.type = "pydantic.ValidationError"

\* C16 witness: a subject rejected for its total alone (the same data with
\* the total put right is accepted).
C16_Witness ==
    /\ lret.op = "Subject"
    /\ lret.kind = "raise"
    /\ TotalMismatch(lret.arg)
    /\ Validate(Subject,
                DictSet(lret.arg, "totalCredits",
                        Num(SumOf(Get(lret.arg, "creditPattern").a)))).ok

\* group2 is in the list the map holds for group1.
ListedIn(map, group1, group2) ==
    /\ Has(map, group1)
    /\ \E i \in 1..Len(Get(map, group1).a) : Get(map, group1).a[i].s = group2

\* group2 is listed under group1 in the cannot-overlap relation of the data.
ListedUnder(data, group1, group2) ==
    ListedIn(Get(data, "cannotOverlapWith"), group1, group2)

\* C17: can_schedule_together(a, b) is False exactly when b is listed under
\* a or a is listed under b in cannot_overlap_with (a missing key is an
\* empty list); the answer is the same for (b, a), for a = b and for ids in
\* no file, and does not change with can_run_parallel_with.
C17_FalseIffListedEitherWay ==
    (lret.op = "can_schedule_together" /\ lret.kind = "return") =>
        LET self == Get(lret.arg, "self")
            a == Get(lret.arg, "group1").s
            b == Get(lret.arg, "group2").s
        IN /\ lret.val = Bool(FALSE) <=>
                 (ListedUnder(self, a, b) \/ ListedUnder(self, b, a))
           /\ lret.val \in {Bool(FALSE), Bool(TRUE)}
           /\ lret.val = Bool(can_schedule_together(lret.model, b, a))
           /\ \A p \in ParallelMaps :
                 lret.val =
                    Bool(can_schedule_together(
                            DictSet(lret.model, "can_run_parallel_with", p), a, b))

\* C17 witness: two groups refused although only the second lists the first,
\* while can_run_parallel_with lists them as parallel.
C17_Witness ==
    /\ lret.op = "can_schedule_together"
    /\ lret.kind = "return"
    /\ lret.val = Bool(FALSE)
    /\ Get(lret.arg, "group1").s = "G1"
    /\ Get(lret.arg, "group2").s = "G2"
    /\ ~ListedUnder(Get(lret.arg, "self"), "G1", "G2")
    /\ ListedUnder(Get(lret.arg, "self"), "G2", "G1")
    /\ ListedIn(Get(Get(lret.arg, "self"), "canRunParallelWith"), "G1", "G2")

\* The names that occur in the faculty data: as a supporting subject, as a
\* bare assigned entry, as a key of a dict entry, as a section of one.
IsSupporting(data, x) ==
    /\ Has(data, "supportingSubjects")
    /\ \E i \in 1..Len(Get(data, "supportingSubjects").a) :
          Get(data, "supportingSubjects").a[i] = Str(x)

IsBareAssigned(data, x) ==
    /\ Has(data, "assignedSubjects")
    /\ \E i \in 1..Len(Get(data, "assignedSubjects").a) :
          Get(data, "assignedSubjects").a[i] = Str(x)

IsAssignedKey(data, x) ==
    /\ Has(data, "assignedSubjects")
    /\ \E i \in 1..Len(Get(data, "assignedSubjects").a) :
          /\ Get(data, "assignedSubjects").a[i].t = "obj"
          /\ Has(Get(data, "assignedSubjects").a[i], x)

SubjectNames == {"S1", "S2", "S3", "S4", "S5", "A", "B"}

\* C18: get_all_subject_codes() is exactly the supporting subjects, the bare
\* string entries of assigned_subjects and the keys of its dict entries; a
\* name that is only a section name is never in it.
C18_CodesAreSupportingBareAndKeys ==
    (lret.op = "get_all_subject_codes" /\ lret.kind = "return") =>
        /\ lret.val.elems \subseteq SubjectNames
        /\ \A x \in SubjectNames :
              x \in lret.val.elems <=>
                 \/ IsSupporting(lret.arg, x)
                 \/ IsBareAssigned(lret.arg, x)
                 \/ IsAssignedKey(lret.arg, x)

\* C18 witness: a faculty with a supporting subject, a bare entry and a dict
\* entry with sections; all three codes are returned.
C18_Witness ==
    /\ lret.op = "get_all_subject_codes"
    /\ lret.kind = "return"
    /\ lret.val.elems = {"S5", "S1", "S2"}
    /\ IsSupporting(lret.arg, "S5")
    /\ IsBareAssigned(lret.arg, "S1")
    /\ IsAssignedKey(lret.arg, "S2")
    /\ \E i \in 1..Len(Get(lret.arg, "assignedSubjects").a) :
          /\ Get(lret.arg, "assignedSubjects").a[i].t = "obj"
          /\ Has(Get(lret.arg, "assignedSubjects").a[i], "S2")
          /\ Get(Get(lret.arg, "assignedSubjects").a[i], "S2").a # <<>>

\* session_duration * sessions_per_week of the assignment data
MinutesOf(data) == Get(data, "sessionDuration").n * Get(data, "sessionsPerWeek").n

\* x <= y, for the digits of two ints
BitsLeq(x, y) ==
    \/ Len(x) < Len(y)
    \/ /\ Len(x) = Len(y)
       /\ \/ x = y
          \/ \E i \in 1..Len(x) :
                /\ x[i] < y[i]
                /\ \A j \in 1..(i - 1) : x[j] = y[j]

\* the digits of b + k, for a small int k
AddSmall(b, k) == MulSmall(b, 1, Len(b), k, <<>>)

\* sixty times the significand of x, and the minutes n on the same scale
SixtyTimes(x) == MulSmall(x.man, 60, MantissaBits, 0, <<>>)

Scaled(n, x) == BitsOf(n) \o Zeros(MantissaBits - 1 - x.exp)

\* C20 as claimed: 60 * weekly_hours == session_duration * sessions_per_week
\* for every accepted assignment (session_duration >= 1, sessions_per_week
\* >= 0).
C20_SixtyTimesWeeklyHoursIsMinutes ==
    (lret.op = "weekly_hours" /\ lret.kind = "return") =>
        IntMulFloat(60, lret.val) = IntToFloat(MinutesOf(lret.arg))

\* C20 as amended: weekly_hours is the double nearest to session_duration *
\* sessions_per_week / 60 (sixty times its exact value is within half of
\* sixty units in the last place of the minutes, and it is 0.0 for no
\* sessions); 60 * weekly_hours == session_duration * sessions_per_week
\* holds whenever the minutes are a multiple of 15, where the quotient is
\* exact.
C20_WeeklyHoursIsNearestDouble ==
    (lret.op = "weekly_hours" /\ lret.kind = "return") =>
        /\ Get(lret.arg, "sessionDuration").n >= 1
        /\ Get(lret.arg, "sessionsPerWeek").n >= 0
        /\ MinutesOf(lret.arg) = 0 <=> lret.val.zero
        /\ MinutesOf(lret.arg) > 0 =>
              /\ Len(lret.val.man) = MantissaBits /\ lret.val.man[1] = 1
              /\ BitsLeq(SixtyTimes(lret.val),
                         AddSmall(Scaled(MinutesOf(lret.arg), lret.val), 30))
              /\ BitsLeq(Scaled(MinutesOf(lret.arg), lret.val),
                         AddSmall(SixtyTimes(lret.val), 30))
        /\ MinutesOf(lret.arg) % 15 = 0 =>
              /\ IntMulFloat(60, lret.val) = IntToFloat(MinutesOf(lret.arg))
              /\ MinutesOf(lret.arg) > 0 =>
                    SixtyTimes(lret.val) = Scaled(MinutesOf(lret.arg), lret.val)

\* C20 witness: 31 minutes a week, whose quotient by 60 is rounded.
C20_Witness ==
    /\ lret.op = "weekly_hours"
    /\ lret.kind = "return"
    /\ MinutesOf(lret.arg) = 31
    /\ SixtyTimes(lret.val) # Scaled(31, lret.val)
    /\ IntMulFloat(60, lret.val) # IntToFloat(31)

\* C19: every accepted stage model instance, written as JSON under its
\* aliases and parsed again as the same type, is accepted and equal to the
\* instance it was written from.
C19_RoundTripIsIdentity ==
    (lret.op = "round_trip" /\ lret.model # <<>>) =>
        /\ lret.kind = "return"
        /\ lret.val = lret.model

(***************************************************************************)
(* The data directory.  A stage file is held by what loading it gives: the *)
(* text is no JSON, the JSON is not of the model's shape, or it is the     *)
(* document the model accepts.  The faculty file and the schema files keep *)
(* their text, which load_faculty and the schema validator parse.          *)
(***************************************************************************)
DataDir == "data"

\* the --file argument of schema validate
UploadPath == "upload/faculty.json"

ConfigPath == "stage_1/config.json"

Subjects1Path == "stage_1/subjects1CoreBasic.json"

Subjects3Path == "stage_1/subjects3CoreBasic.json"

GroupsPath == "stage_1/studentGroups.json"

RoomPrefsPath == "stage_1/roomPreferences.json"

FacultyFullPath == "stage_2/faculty2Full.json"

SubjectsFullPath == "stage_2/subjects2Full.json"

AssignmentsPath(semester) ==
    IF semester = 1 THEN "stage_3/teachingAssignments_sem1.json"
    ELSE "stage_3/teachingAssignments_sem3.json"

OverlapPath == "stage_3/studentGroupOverlapConstraints.json"

StatisticsPath == "stage_3/statistics.json"

SchedulingInputPath == "stage_4/schedulingInput.json"

AiSchedulePath == "stage_5/ai_solved_schedule.json"

EnrichedPath == "stage_6/timetable_enriched.json"

Semesters == {1, 3}

NotJson == [json |-> FALSE, shape |-> FALSE, value |-> Null]

BadShape == [json |-> TRUE, shape |-> FALSE, value |-> Null]

Holding(value) == [json |-> TRUE, shape |-> TRUE, value |-> value]

\* DataLoader.__init__(data_dir, strict): the path must be a directory.
DataLoader(d, data_dir, strict) ==
    IF ~Exists(d, data_dir)
    THEN LRaises(DataLoadError(<<"Data", "directory", "not", "found", ":", data_dir>>,
                               data_dir, <<>>), <<>>)
    ELSE IF At(d, data_dir).kind # "dir"
    THEN LRaises(DataLoadError(<<"Path", "is", "not", "a", "directory", ":", data_dir>>,
                               data_dir, <<>>), <<>>)
    ELSE [LReturns(<<>>) EXCEPT !.model = <<[data_dir |-> data_dir, strict |-> strict]>>]

\* A stage loader: load_and_validate of the stage's file.
load_stage_file(d, filepath) ==
    IF ~Exists(d, filepath)
    THEN LRaises(DataLoadError(<<"File", "not", "found", ":", filepath>>, filepath, <<>>),
                 <<>>)
    ELSE IF ~IsFile(d, filepath)
    THEN LRaises(DataLoadError(<<"Path", "is", "not", "a", "file", ":", filepath>>,
                               filepath, <<>>), <<>>)
    ELSE IF ~At(d, filepath).text.json
    THEN LRaises(DataLoadError(<<"Invalid", "JSON", "in", "file", ":", "JSONDecodeError">>,
                               filepath, <<>>), <<>>)
    ELSE IF ~At(d, filepath).text.shape
    THEN LRaises(ValidationError(<<"Validation", "failed">>, "",
                                 <<<<"filepath", filepath>>>>), <<>>)
    ELSE [LReturns(<<>>) EXCEPT !.val = At(d, filepath).text.value]

\* The subjects of both files, or the failure of the first file that fails.
Merged(first, second) ==
    IF first.kind = "raise" THEN first
    ELSE IF second.kind = "raise" THEN second
    ELSE [LReturns(<<>>) EXCEPT !.val = Arr(first.val.a \o second.val.a)]

NoSubjects == [LReturns(<<>>) EXCEPT !.val = Arr(<<>>)]

\* load_subjects(): the semester files that are there, merged; none is an error
load_subjects(d) ==
    IF ~Exists(d, Subjects1Path) /\ ~Exists(d, Subjects3Path)
    THEN LRaises(DataLoadError(<<"No", "subject", "files", "found">>, NoPath, <<>>), <<>>)
    ELSE Merged(IF Exists(d, Subjects1Path) THEN load_stage_file(d, Subjects1Path)
                ELSE NoSubjects,
                IF Exists(d, Subjects3Path) THEN load_stage_file(d, Subjects3Path)
                ELSE NoSubjects)

\* The first call of a sequence of calls that raised, 0 when none did.
FirstRaise(loads) ==
    IF \E i \in 1..Len(loads) : loads[i].kind = "raise"
    THEN CHOOSE i \in 1..Len(loads) :
            /\ loads[i].kind = "raise"
            /\ \A j \in 1..(i - 1) : loads[j].kind # "raise"
    ELSE 0

RECURSIVE Concat(_)
Concat(seqs) == IF seqs = <<>> THEN <<>> ELSE Head(seqs) \o Concat(Tail(seqs))

RECURSIVE Listed(_)
\* The members of a set, each once, in the order the set is iterated.
Listed(set) ==
    IF set = {} THEN <<>>
    ELSE <<CHOOSE x \in set : TRUE>> \o Listed(set \ {CHOOSE x \in set : TRUE})

\* The strings of a JSON list of strings.
Strings(list) == {list.a[i].s : i \in 1..Len(list.a)}

\* The codes of the loaded subjects / the ids of the config's rooms.
Codes(subjects) == {Get(subjects.a[i], "subject_code").s : i \in 1..Len(subjects.a)}

RoomIds(config) ==
    {Get(Get(config, "rooms").a[i], "room_id").s : i \in 1..Len(Get(config, "rooms").a)}

\* The entries of a list of references that are not among the known ids.
Unknown(refs, known) == SelectSeq(refs.a, LAMBDA x : x.s \notin known)

FacultyWarnings(faculty, codes) ==
    Concat([i \in 1..Len(faculty) |->
               [j \in 1..Len(Listed(get_all_subject_codes(faculty[i]) \ codes)) |->
                   <<"Faculty", faculty[i].faculty_id, "references", "unknown", "subject",
                     Listed(get_all_subject_codes(faculty[i]) \ codes)[j]>>]])

GroupWarnings(groups, codes) ==
    Concat([i \in 1..Len(groups.a) |->
               [j \in 1..Len(Unknown(Get(groups.a[i], "compulsory_subjects"), codes)) |->
                   <<"Student", "group", Get(groups.a[i], "student_group_id").s,
                     "references", "unknown", "subject",
                     Unknown(Get(groups.a[i], "compulsory_subjects"), codes)[j].s>>]])

RoomWarnings_silent(prefs, rooms) == <<>>

RoomWarnings(prefs, rooms) ==
    Concat([i \in 1..Len(prefs.a) |->
               [j \in 1..Len(Unknown(Get(prefs.a[i], "preferred_rooms"), rooms)) |->
                   <<"Room", "preference", "for", Get(prefs.a[i], "subject_code").s,
                     "references", "unknown", "room",
                     Unknown(Get(prefs.a[i], "preferred_rooms"), rooms)[j].s>>]])

\* config, faculty, subjects, student groups and room preferences, as loaded
Stage1Loads(d) ==
    <<load_stage_file(d, ConfigPath), load_faculty(<<>>, d), load_subjects(d),
      load_stage_file(d, GroupsPath), load_stage_file(d, RoomPrefsPath)>>

Stage1Warnings(loads) ==
    FacultyWarnings(loads[2].model, Codes(loads[3].val))
        \o GroupWarnings(loads[4].val, Codes(loads[3].val))
        \o RoomWarnings(loads[5].val, RoomIds(loads[1].val))

\* strict: any cross-reference warning is a ValidationError instead
CrossChecked(strict, warnings) ==
    IF strict /\ warnings # <<>>
    THEN LRaises(ValidationError(<<"Stage", "1", "cross-reference", "validation",
                                   "failed">>, "", <<<<"warnings", warnings>>>>), <<>>)
    ELSE [LReturns(<<>>) EXCEPT !.val = warnings]

Stage1Checked(strict, loads) ==
    IF FirstRaise(loads) # 0 THEN loads[FirstRaise(loads)]
    ELSE CrossChecked(strict, Stage1Warnings(loads))

\* DataLoader.validate_stage1()
validate_stage1(d, strict) == Stage1Checked(strict, Stage1Loads(d))

\* The assignments of the semesters whose file is there.
AssignmentLoads(d) ==
    [s \in {t \in Semesters : Exists(d, AssignmentsPath(t))} |->
        load_stage_file(d, AssignmentsPath(s))]

\* A load that gives up on the first missing file.
KeyedLoads_all_or_nothing(loads) ==
    IF \E s \in DOMAIN loads : loads[s].kind = "raise"
    THEN loads[CHOOSE s \in DOMAIN loads :
                  /\ loads[s].kind = "raise"
                  /\ \A t \in DOMAIN loads : loads[t].kind = "raise" => s <= t]
    ELSE [LReturns(<<>>) EXCEPT
             !.val = IF DOMAIN loads = Semesters THEN [s \in DOMAIN loads |-> loads[s].val]
                     ELSE <<>>]

KeyedLoads(loads) ==
    IF \E s \in DOMAIN loads : loads[s].kind = "raise"
    THEN loads[CHOOSE s \in DOMAIN loads :
                  /\ loads[s].kind = "raise"
                  /\ \A t \in DOMAIN loads : loads[t].kind = "raise" => s <= t]
    ELSE [LReturns(<<>>) EXCEPT !.val = [s \in DOMAIN loads |-> loads[s].val]]

\* DataLoader.load_all_teaching_assignments()
load_all_teaching_assignments(d) == KeyedLoads(AssignmentLoads(d))

(***************************************************************************)
(* The command line.  A command ends with an exit code; printed holds the  *)
(* failure messages it printed (errors) and the cross-reference warnings   *)
(* it printed (warnings).                                                  *)
(***************************************************************************)
Exit(code, errors, warnings) ==
    [LReturns(<<>>) EXCEPT !.kind = "exit", !.val = Num(code),
                           !.model = [errors |-> errors, warnings |-> warnings,
                                      results |-> <<>>, written |-> <<>>]]

\* get_data_dir(data_dir) with --data-dir given: the path named
get_data_dir(data_dir) == data_dir

\* What a _validate_stageN gives: its result dict, or the exception that
\* escapes it.
StageResult(success, errors, warnings) ==
    [kind |-> "result", success |-> success, errors |-> errors, warnings |-> warnings,
     exc |-> NoExc]

Escapes(e) ==
    [kind |-> "raise", success |-> FALSE, errors |-> <<>>, warnings |-> <<>>, exc |-> e]

\* except (DataLoadError, ValidationError), ValidationError being pydantic's
Caught(e) ==
    IF e.type \in {"DataLoadError", "pydantic.ValidationError"}
    THEN StageResult(FALSE, <<ExcStr(e)>>, <<>>)
    ELSE Escapes(e)

Stage1Result(d, strict, loads) ==
    IF FirstRaise(loads) # 0 THEN Caught(loads[FirstRaise(loads)].exc)
    ELSE IF validate_stage1(d, strict).kind = "raise"
    THEN Caught(validate_stage1(d, strict).exc)
    ELSE StageResult(TRUE, <<>>, validate_stage1(d, strict).val)

StageLoaded(loads) ==
    IF FirstRaise(loads) # 0 THEN Caught(loads[FirstRaise(loads)].exc)
    ELSE StageResult(TRUE, <<>>, <<>>)

_validate_stage1(d, strict) ==
    Stage1Result(d, strict,
                 <<load_stage_file(d, ConfigPath), load_faculty(<<>>, d), load_subjects(d),
                   load_stage_file(d, GroupsPath)>>)

_validate_stage2(d) ==
    StageLoaded(<<load_stage_file(d, FacultyFullPath),
                  load_stage_file(d, SubjectsFullPath)>>)

_validate_stage3(d) ==
    StageLoaded(<<load_all_teaching_assignments(d), load_stage_file(d, OverlapPath),
                  load_stage_file(d, StatisticsPath)>>)

ValidateStage(d, strict, s) ==
    CASE s = 1 -> _validate_stage1(d, strict)
      [] s = 2 -> _validate_stage2(d)
      [] OTHER -> _validate_stage3(d)

\* "Stage {s}: {e}"
StageMessage(s, message) ==
    <<"Stage", IF s = 1 THEN "1" ELSE IF s = 2 THEN "2" ELSE "3", ":">> \o message

\* results.append((s, result)): the stage and its result's "success"
StageOutcome(s, success) == [stage |-> s, success |-> success]

\* The summary of the results, the warnings and the errors, and
\* sys.exit(1) if errors else sys.exit(0)
Summary(errors, warnings, results) ==
    [Exit(IF errors # <<>> THEN 1 ELSE 0, errors, warnings)
        EXCEPT !.model.results = results]

RECURSIVE ValidateStages(_, _, _, _, _, _, _)
\* the body of "for s in stages_to_validate", given the stage's outcome
StageStep(d, strict, stages, i, errors, warnings, results, result) ==
    IF result.kind = "raise"
    THEN IF result.exc.type \in {"DataLoadError", "pydantic.ValidationError"}
         THEN ValidateStages(d, strict, stages, i + 1,
                             Append(errors, StageMessage(stages[i], ExcStr(result.exc))),
                             warnings, Append(results, StageOutcome(stages[i], FALSE)))
         ELSE Exit(1, <<ExcStr(result.exc)>>, <<>>)
    ELSE ValidateStages(d, strict, stages, i + 1,
                        errors \o (IF ~result.success THEN result.errors ELSE <<>>),
                        warnings \o result.warnings,
                        Append(results, StageOutcome(stages[i], result.success)))

ValidateStages(d, strict, stages, i, errors, warnings, results) ==
    IF i > Len(stages)
    THEN Summary(errors, warnings, results)
    ELSE StageStep(d, strict, stages, i, errors, warnings, results,
                   ValidateStage(d, strict, stages[i]))

\* The stages the options select, validated.
ValidateSelected(d, stage, validate_all, strict) ==
    IF validate_all THEN ValidateStages(d, strict, <<1, 2, 3>>, 1, <<>>, <<>>, <<>>)
    ELSE IF stage # 0
    THEN IF stage \notin {1, 2, 3}
         THEN Exit(1, <<<<"Invalid", "stage">>>>, <<>>)
         ELSE ValidateStages(d, strict, <<stage>>, 1, <<>>, <<>>, <<>>)
    ELSE Exit(1, <<<<"Specify", "--stage", "NUMBER", "or", "--all", "to", "validate.">>>>,
              <<>>)

\* validate that builds its loader without the strict flag.
validate_never_strict(d, data_dir, stage, validate_all, strict) ==
    IF DataLoader(d, get_data_dir(data_dir), FALSE).kind = "raise"
    THEN Exit(1, <<ExcStr(DataLoader(d, get_data_dir(data_dir), FALSE).exc)>>, <<>>)
    ELSE ValidateSelected(d, stage, validate_all, FALSE)

\* timetable validate [--stage N | --all] [--strict] --data-dir DIR; a stage
\* of 0 is no --stage option
validate(d, data_dir, stage, validate_all, strict) ==
    IF DataLoader(d, get_data_dir(data_dir), strict).kind = "raise"
    THEN Exit(1, <<ExcStr(DataLoader(d, get_data_dir(data_dir), strict).exc)>>, <<>>)
    ELSE ValidateSelected(d, stage, validate_all, strict)

\* A command that builds a loader, loads one file and shows it:
\* except TimetableError: print_error(str(e)); sys.exit(1)
LoadsOne(d, data_dir, filepath) ==
    IF DataLoader(d, get_data_dir(data_dir), FALSE).kind = "raise"
    THEN Exit(1, <<ExcStr(DataLoader(d, get_data_dir(data_dir), FALSE).exc)>>, <<>>)
    ELSE IF load_stage_file(d, filepath).kind = "raise"
    THEN Exit(1, <<ExcStr(load_stage_file(d, filepath).exc)>>, <<>>)
    ELSE Exit(0, <<>>, <<>>)

\* timetable info config
info_config(d, data_dir) == LoadsOne(d, data_dir, ConfigPath)

\* timetable load config
load_config(d, data_dir) == LoadsOne(d, data_dir, ConfigPath)

\* An exception no handler of the command catches: the interpreter ends
\* with the traceback and status 1.
Uncaught(e) == [Exit(1, <<ExcStr(e)>>, <<>>) EXCEPT !.kind = "raise", !.exc = e]

\* models/stage3.py: the fields of StatisticsFile's semester1 and semester3
SemesterStatsFields ==
    {"semester", "total_assignments", "total_sessions", "total_hours", "by_type",
     "by_component", "by_priority", "by_room_type", "faculty_distribution",
     "subject_coverage", "student_groups", "constraints", "conflict_patterns",
     "room_requirements"}

\* models/stage3.py: the fields of StatisticsFile's combined
CombinedStatsFields ==
    {"total_assignments", "total_sessions", "total_hours", "faculty_workload",
     "resource_analysis"}

FieldsOf(part) == IF part = "combined" THEN CombinedStatsFields ELSE SemesterStatsFields

\* BaseModel.__getattr__ over stats.<part>.<field> reads in order: the first
\* read of a field the model does not have, 0 when every read finds its field
FirstMissing(reads) ==
    IF \E i \in 1..Len(reads) : reads[i][2] \notin FieldsOf(reads[i][1])
    THEN CHOOSE i \in 1..Len(reads) :
            /\ reads[i][2] \notin FieldsOf(reads[i][1])
            /\ \A j \in 1..(i - 1) : reads[j][2] \in FieldsOf(reads[j][1])
    ELSE 0

AttributeError(read) == BuiltinError("AttributeError", read[2])

Formats == {"json", "csv", "md"}

\* A file an export leaves: export_to_json, export_to_csv or
\* export_to_markdown wrote it.
Output(path, output_format) ==
    [path |-> path,
     content |-> File([json |-> output_format = "json", shape |-> FALSE,
                       value |-> Str(output_format)])]

\* export_dir.mkdir(parents=True, exist_ok=True)
OutputDir(path) == [path |-> path, content |-> Dir]

\* The command ran to its end: what it wrote, the rows of its summary and
\* the warnings it printed.
Exported(written, rows, warnings) ==
    [Exit(0, warnings, <<>>) EXCEPT !.model.results = rows, !.model.written = written]

\* The fields export statistics reads to build what it writes.
StatisticsReads(output_format) ==
    IF output_format = "md"
    THEN <<<<"semester1", "total_assignments">>,
           <<"semester1", "total_sessions_per_week">>,
           <<"semester3", "total_assignments">>,
           <<"semester3", "total_sessions_per_week">>,
           <<"combined", "total_assignments">>,
           <<"combined", "total_sessions_per_week">>>>
    ELSE <<>>

\* export statistics once the statistics are loaded
WriteStatistics(reads, output_format, timestamp) ==
    IF FirstMissing(reads) # 0
    THEN Uncaught(AttributeError(reads[FirstMissing(reads)]))
    ELSE Exported(<<Output("exports/statistics_" \o timestamp \o "." \o output_format,
                           output_format)>>, <<>>, <<>>)

\* timestamp = datetime.now().strftime("%Y%m%d_%H%M%S") of a run without
\* --format
Now == "20260101_090000"

\* timetable export statistics --format FORMAT
export_statistics(d, data_dir, output_format, timestamp) ==
    IF LoadsOne(d, data_dir, StatisticsPath).val # Num(0)
    THEN LoadsOne(d, data_dir, StatisticsPath)
    ELSE WriteStatistics(StatisticsReads(output_format), output_format, timestamp)

\* A section of a summary: the message printed when one of its loads fails.
Section(label, loads) ==
    IF FirstRaise(loads) # 0
    THEN <<label \o ExcStr(loads[FirstRaise(loads)].exc)>>
    ELSE <<>>

\* load_teaching_assignments(semester)
load_teaching_assignments(d, semester) == load_stage_file(d, AssignmentsPath(semester))

InfoSections(d) ==
    Section(<<"Stage", "1", ":">>,
            <<load_stage_file(d, ConfigPath), load_faculty(<<>>, d), load_subjects(d),
              load_stage_file(d, GroupsPath)>>)
        \o Section(<<"Stage", "2", ":">>,
                   <<load_stage_file(d, FacultyFullPath),
                     load_stage_file(d, SubjectsFullPath)>>)
        \o Section(<<"Stage", "3", ":">>,
                   <<load_all_teaching_assignments(d), load_stage_file(d, StatisticsPath)>>)
        \o Section(<<"Stage", "4", ":">>, <<load_stage_file(d, SchedulingInputPath)>>)
        \o Section(<<"Stage", "5", ":">>, <<load_stage_file(d, AiSchedulePath)>>)
        \o Section(<<"Stage", "6", ":">>, <<load_stage_file(d, EnrichedPath)>>)

\* timetable info all: each stage's failure is printed and the next stage
\* is shown
info_all(d, data_dir) ==
    IF DataLoader(d, get_data_dir(data_dir), FALSE).kind = "raise"
    THEN Exit(1, <<ExcStr(DataLoader(d, get_data_dir(data_dir), FALSE).exc)>>, <<>>)
    ELSE Exit(0, InfoSections(d), <<>>)

\* One of the six guarded exports of export all: the row it appends to
\* exported_files, the file it writes, the formats in which it writes one,
\* and the load (with the reads that follow it) that it starts with.
Entity(name, label, file, formats, load) ==
    [name |-> name, label |-> label, file |-> file, formats |-> formats, load |-> load]

\* The load, or the AttributeError of the first read that finds no field.
Reading(load, reads) ==
    IF load.kind = "raise" \/ FirstMissing(reads) = 0 THEN load
    ELSE LRaises(AttributeError(reads[FirstMissing(reads)]), <<>>)

\* The fields export all reads from the statistics.
SummaryReads(output_format) ==
    IF output_format = "json" THEN <<>>
    ELSE <<<<"semester1", "total_assignments">>, <<"semester3", "total_assignments">>,
           <<"combined", "total_assignments">>>>

ExportEntities(d, output_format) ==
    <<Entity("Faculty", <<"Could", "not", "export", "faculty", ":">>, "faculty",
             Formats, load_stage_file(d, FacultyFullPath)),
      Entity("Subjects", <<"Could", "not", "export", "subjects", ":">>, "subjects",
             Formats, load_stage_file(d, SubjectsFullPath)),
      Entity("Assignments Sem 1",
             <<"Could", "not", "export", "semester", "1", "assignments", ":">>,
             "assignments_sem1", Formats, load_teaching_assignments(d, 1)),
      Entity("Assignments Sem 3",
             <<"Could", "not", "export", "semester", "3", "assignments", ":">>,
             "assignments_sem3", Formats, load_teaching_assignments(d, 3)),
      Entity("Statistics", <<"Could", "not", "export", "statistics", ":">>, "statistics",
             Formats,
             Reading(load_stage_file(d, StatisticsPath), SummaryReads(output_format))),
      Entity("Config", <<"Could", "not", "export", "config", ":">>, "config",
             {"json"}, load_stage_file(d, ConfigPath))>>

\* except Exception as e: print_warning(f"Could not export ...: {e}")
ExportSections(entities) ==
    Concat([i \in 1..Len(entities) |-> Section(entities[i].label, <<entities[i].load>>)])

\* exported_files: a row for every export that reached its append
ExportedRows(entities) ==
    Concat([i \in 1..Len(entities) |->
               IF entities[i].load.kind = "raise" THEN <<>> ELSE <<entities[i].name>>])

\* The files of the exports that loaded and have a branch for the format.
ExportedFiles(entities, export_dir, output_format) ==
    Concat([i \in 1..Len(entities) |->
               IF entities[i].load.kind = "raise"
                      \/ output_format \notin entities[i].formats
               THEN <<>>
               ELSE <<Output(export_dir \o "/" \o entities[i].file \o "."
                                 \o output_format, output_format)>>])

ExportAllInto(entities, export_dir, output_format) ==
    Exported(<<OutputDir(export_dir)>>
                 \o ExportedFiles(entities, export_dir, output_format),
             ExportedRows(entities), ExportSections(entities))

\* export all with the loader built inside the first guarded section.
export_all_unguarded(d, data_dir, output_format, timestamp) ==
    ExportAllInto(ExportEntities(d, output_format), "exports/export_" \o timestamp,
                  output_format)

\* timetable export all --format FORMAT
export_all(d, data_dir, output_format, timestamp) ==
    IF DataLoader(d, get_data_dir(data_dir), FALSE).kind = "raise"
    THEN Exit(1, <<ExcStr(DataLoader(d, get_data_dir(data_dir), FALSE).exc)>>, <<>>)
    ELSE ExportAllInto(ExportEntities(d, output_format), "exports/export_" \o timestamp,
                       output_format)

\* file_map of schema validate
FileMap ==
    [config |-> ConfigPath,
     faculty |-> FacultyPath,
     subjects_full |-> SubjectsFullPath,
     faculty_full |-> FacultyFullPath,
     teaching_assignments |-> AssignmentsPath(1),
     overlap_constraints |-> OverlapPath,
     statistics |-> StatisticsPath,
     scheduling_input |-> SchedulingInputPath,
     ai_schedule |-> AiSchedulePath,
     enriched_timetable |-> EnrichedPath]

\* The file schema validate checks: --file, or the schema's file in the
\* data directory.
SchemaTarget(schema_name, file) ==
    IF file # NoPath THEN file
    ELSE IF schema_name \in DOMAIN FileMap THEN FileMap[schema_name]
    ELSE NoPath

SchemaChecked(v) ==
    IF v.kind = "raise" THEN Exit(1, <<ExcStr(v.exc)>>, <<>>)
    ELSE IF v.errs # <<>> THEN Exit(1, <<<<"Validation", "failed">>>>, <<>>)
    ELSE Exit(0, <<>>, <<>>)

\* timetable schema validate SCHEMA_NAME [--file FILE] [--data-dir DIR]
schema_validate(d, schema_name, file, data_dir) ==
    IF file # NoPath /\ ~Exists(d, file)
    THEN Exit(2, <<<<"Path", file, "does", "not", "exist.">>>>, <<>>)
    ELSE IF SchemaTarget(schema_name, file) = NoPath
    THEN Exit(1, <<<<"Cannot", "infer", "file", "for", "schema">>>>, <<>>)
    ELSE IF ~Exists(d, SchemaTarget(schema_name, file))
    THEN Exit(1, <<<<"File", "not", "found", ":", SchemaTarget(schema_name, file)>>>>, <<>>)
    ELSE SchemaChecked(validate_file(<<>>, d, {}, SchemaTarget(schema_name, file),
                                     schema_name))

(***************************************************************************)
(* The command line as a state machine: one data directory on disk, and    *)
(* one command or loader call run on it.                                   *)
(***************************************************************************)
StagePaths ==
    {ConfigPath, Subjects1Path, Subjects3Path, GroupsPath, RoomPrefsPath,
     FacultyFullPath, SubjectsFullPath, AssignmentsPath(1), AssignmentsPath(3),
     OverlapPath, StatisticsPath, SchedulingInputPath, AiSchedulePath, EnrichedPath}

CliPaths == {DataDir, UploadPath} \cup Paths \cup StagePaths

Room(id) == Obj(<<"room_id">>, <<Str(id)>>)

ConfigDoc == Obj(<<"rooms">>, <<Arr(<<Room("R1"), Room("R2")>>)>>)

SubjectOf(code) == Obj(<<"subject_code">>, <<Str(code)>>)

GroupOf(id, codes) ==
    Obj(<<"student_group_id", "compulsory_subjects">>, <<Str(id), Arr(codes)>>)

PreferenceOf(code, rooms) ==
    Obj(<<"subject_code", "preferred_rooms">>, <<Str(code), Arr(rooms)>>)

StaffMember(id, assigned, supporting) ==
    Obj(<<"facultyId", "name", "designation", "assignedSubjects",
          "supportingSubjects">>,
        <<Str(id), Str("Dr. Test"), Str("Professor"), Arr(assigned), Arr(supporting)>>)

\* Faculty whose subjects are all taught, and faculty naming unknown ones.
StaffLists ==
    {<<StaffMember("F001",
                   <<Str("S1"), Obj(<<"S2">>, <<Arr(<<Str("A")>>)>>)>>,
                   <<Str("S3")>>)>>,
     <<StaffMember("F001",
                   <<Str("S9"), Obj(<<"S2", "S8">>, <<Arr(<<Str("A")>>), Arr(<<>>)>>)>>,
                   <<Str("S7"), Str("S1")>>)>>,
     <<StaffMember("F001", <<Str("S9")>>, <<Str("S9")>>),
       StaffMember("F002", <<Obj(<<"S9">>, <<Arr(<<Str("B")>>)>>)>>, <<>>)>>}

GroupLists ==
    {Arr(<<>>),
     Arr(<<GroupOf("G1", <<Str("S1"), Str("S2")>>)>>),
     Arr(<<GroupOf("G1", <<Str("S1"), Str("S6")>>),
           GroupOf("G2", <<Str("S6"), Str("S5")>>)>>)}

PreferenceLists ==
    {Arr(<<PreferenceOf("S1", <<Str("R1")>>)>>),
     Arr(<<PreferenceOf("S1", <<Str("R1"), Str("R9")>>),
           PreferenceOf("S2", <<Str("R8")>>)>>)}

\* What a stage file holds when it is as it should be.
GoodContent(p) ==
    CASE p = ConfigPath -> Holding(ConfigDoc)
      [] p = Subjects1Path -> Holding(Arr(<<SubjectOf("S1"), SubjectOf("S2")>>))
      [] p = Subjects3Path -> Holding(Arr(<<SubjectOf("S3")>>))
      [] p = GroupsPath -> Holding(Arr(<<GroupOf("G1", <<Str("S1"), Str("S2")>>)>>))
      [] p = RoomPrefsPath -> Holding(Arr(<<PreferenceOf("S1", <<Str("R1")>>)>>))
      [] OTHER -> Holding(Obj(<<"path">>, <<Str(p)>>))

GoodDisk ==
    [p \in CliPaths |->
        CASE p = DataDir -> Dir
          [] p = UploadPath -> File(Dumps(GoodDoc))
          [] p = FacultyPath ->
                File(Dumps(FacultyDoc(
                    <<StaffMember("F001", <<Str("S1")>>, <<Str("S3")>>)>>)))
          [] p = SchemaPath("faculty") -> File(Dumps(FacultySchema))
          [] p = SchemaPath("custom") -> File(Dumps(CustomSchema))
          [] OTHER -> File(GoodContent(p))]

\* Data directories that differ in their cross-references.
CrossRefDisks ==
    {[GoodDisk EXCEPT ![FacultyPath] = File(Dumps(FacultyDoc(staff))),
                      ![GroupsPath] = File(Holding(groups)),
                      ![RoomPrefsPath] = File(Holding(prefs)),
                      ![Subjects3Path] = third] :
        staff \in StaffLists, groups \in GroupLists, prefs \in PreferenceLists,
        third \in {Missing, File(GoodContent(Subjects3Path))}}

\* Data directories with one file missing or damaged.
DamagedDisks ==
    {[GoodDisk EXCEPT ![p] = f] :
        p \in StagePaths, f \in {Missing, Dir, File(NotJson), File(BadShape)}}
      \cup {[GoodDisk EXCEPT ![FacultyPath] = f] :
               f \in {Missing, File(NotJsonText), File(Dumps(BadDoc))}}
      \cup {[GoodDisk EXCEPT ![Subjects1Path] = Missing, ![Subjects3Path] = Missing]}
      \cup {[GoodDisk EXCEPT ![GroupsPath] = File(Holding(Arr(<<GroupOf("G1",
                                                 <<Str("S6")>>)>>))),
                             ![p] = Missing] :
               p \in {FacultyFullPath, StatisticsPath, RoomPrefsPath}}

SemesterFiles(s) ==
    {Missing, File(GoodContent(AssignmentsPath(s))), File(NotJson), File(BadShape)}

SemesterDisks ==
    {[GoodDisk EXCEPT ![AssignmentsPath(1)] = first, ![AssignmentsPath(3)] = third] :
        first \in SemesterFiles(1), third \in SemesterFiles(3)}

UploadFiles == {Missing, File(Dumps(GoodDoc)), File(Dumps(BadDoc)), File(NotJsonText)}

\* A data directory that is not there, or is a file: nothing is under it.
NoDataDir(at, upload) ==
    [p \in CliPaths |->
        IF p = DataDir THEN at
        ELSE IF p = UploadPath THEN upload
        ELSE IF p \in StagePaths \cup {FacultyPath} THEN Missing
        ELSE GoodDisk[p]]

UploadDisks ==
    {[GoodDisk EXCEPT ![UploadPath] = upload] : upload \in UploadFiles}
        \cup {NoDataDir(at, upload) : at \in {Missing, File(<<>>)}, upload \in UploadFiles}

CliDisks == CrossRefDisks \cup DamagedDisks \cup SemesterDisks \cup UploadDisks

\* The options of a call; stage 0 is no --stage, file NoPath is no --file.
Options(stage, all, strict, file, schema) ==
    [stage |-> stage, all |-> all, strict |-> strict, file |-> file, schema |-> schema]

NoOptions == Options(0, FALSE, FALSE, NoPath, "")

Commands ==
    {"validate", "info all", "info config", "load config", "export statistics",
     "export all", "schema validate"}

CliInputs ==
    {[name |-> "validate", data |-> Options(stage, all, strict, NoPath, "")] :
        stage \in {0, 1, 2, 3, 99}, all \in BOOLEAN, strict \in BOOLEAN}
      \cup {[name |-> "schema validate", data |-> Options(0, FALSE, FALSE, file, schema)] :
               file \in {NoPath, UploadPath}, schema \in SchemaNames}
      \cup {[name |-> n, data |-> Options(0, FALSE, strict, NoPath, "")] :
               n \in {"DataLoader", "validate_stage1"}, strict \in BOOLEAN}
      \cup {[name |-> n, data |-> NoOptions] :
               n \in {"info all", "info config", "load config", "export statistics",
                      "export all", "load_all_teaching_assignments"}}

CliCall(name, o) ==
    /\ input.name = name
    /\ LCall(name, DataDir, input.data, o)
    /\ UNCHANGED _cache

\* loader = DataLoader(data_dir, strict=strict)
Construct == CliCall("DataLoader", DataLoader(disk, DataDir, input.data.strict))

\* loader.validate_stage1() on a loader of the data directory
ValidateStage1 ==
    /\ DataLoader(disk, DataDir, input.data.strict).kind = "return"
    /\ CliCall("validate_stage1", validate_stage1(disk, input.data.strict))

\* loader.load_all_teaching_assignments()
LoadAllTeachingAssignments ==
    /\ DataLoader(disk, DataDir, FALSE).kind = "return"
    /\ CliCall("load_all_teaching_assignments", load_all_teaching_assignments(disk))

RunValidate ==
    CliCall("validate",
            validate(disk, DataDir, input.data.stage, input.data.all, input.data.strict))

InfoAll == CliCall("info all", info_all(disk, DataDir))

InfoConfig == CliCall("info config", info_config(disk, DataDir))

LoadConfig == CliCall("load config", load_config(disk, DataDir))

\* The files a command wrote are on the disk.
Store(d, written) ==
    [p \in DOMAIN d \cup {written[i].path : i \in 1..Len(written)} |->
        IF \E i \in 1..Len(written) : written[i].path = p
        THEN written[CHOOSE i \in 1..Len(written) : written[i].path = p].content
        ELSE d[p]]

ExportCall(name, o) ==
    /\ input.name = name
    /\ lret' = LSeen(name, DataDir, input.data, o)
    /\ disk' = Store(disk, o.model.written)
    /\ UNCHANGED <<_schema_cache, ret, input, _cache>>

ExportStatistics ==
    ExportCall("export statistics", export_statistics(disk, DataDir, "json", Now))

ExportAll == ExportCall("export all", export_all(disk, DataDir, "json", Now))

SchemaValidate ==
    CliCall("schema validate",
            schema_validate(disk, input.data.schema, input.data.file, DataDir))

InitCli ==
    /\ disk \in CliDisks
    /\ _schema_cache = <<>>
    /\ ret = Idle
    /\ input \in CliInputs
    /\ _cache = <<>>
    /\ lret = LIdle

NextCli ==
    \/ Construct
    \/ ValidateStage1
    \/ LoadAllTeachingAssignments
    \/ RunValidate
    \/ InfoAll
    \/ InfoConfig
    \/ LoadConfig
    \/ ExportStatistics
    \/ ExportAll
    \/ SchemaValidate

CliSpec == InitCli /\ [][NextCli]_vars

(***************************************************************************)
(* Properties of the cross-reference checks and of the command line.       *)
(***************************************************************************)
\* What the files of the data directory say, read without the loader.
OnDisk(p) == At(disk, p).text.value

TaughtCodes ==
    (IF Exists(disk, Subjects1Path) THEN Codes(OnDisk(Subjects1Path)) ELSE {})
        \cup (IF Exists(disk, Subjects3Path) THEN Codes(OnDisk(Subjects3Path)) ELSE {})

StaffOnDisk == Get(JsonLoad(At(disk, FacultyPath).text).v, "faculty").a

AllCodes == {"S1", "S2", "S3", "S5", "S6", "S7", "S8", "S9"}

\* (faculty member, code): the member names the code, which is not taught
FacultyViolations ==
    {v \in (1..Len(StaffOnDisk)) \X AllCodes :
        /\ v[2] \notin TaughtCodes
        /\ \/ IsSupporting(StaffOnDisk[v[1]], v[2])
           \/ IsBareAssigned(StaffOnDisk[v[1]], v[2])
           \/ IsAssignedKey(StaffOnDisk[v[1]], v[2])}

\* (entry, position): the reference at that position of the entry's list
\* is to nothing known
Dangling(entries, field, known) ==
    {v \in (1..Len(entries.a)) \X (1..3) :
        /\ v[2] <= Len(Get(entries.a[v[1]], field).a)
        /\ Get(entries.a[v[1]], field).a[v[2]].s \notin known}

GroupViolations == Dangling(OnDisk(GroupsPath), "compulsory_subjects", TaughtCodes)

RoomViolations ==
    Dangling(OnDisk(RoomPrefsPath), "preferred_rooms", RoomIds(OnDisk(ConfigPath)))

Violations ==
    Cardinality(FacultyViolations) + Cardinality(GroupViolations)
        + Cardinality(RoomViolations)

\* Every file the cross-reference checks read can be loaded.
Stage1Loadable == FirstRaise(Stage1Loads(disk)) = 0

Mentioned(warning, words) == \A w \in words : \E i \in 1..Len(warning) : warning[i] = w

ValidatedStage1 ==
    /\ lret.op = "validate"
    /\ lret.arg.all \/ lret.arg.stage = 1
    /\ At(disk, DataDir).kind = "dir"
    /\ Stage1Loadable

\* C12: when the data has at least one cross-reference violation, a strict
\* loader's validate_stage1() raises ValidationError, and validate --strict
\* on stage 1 exits 1 without printing the warnings, where validate without
\* --strict on stage 1 alone prints them and exits 0.
C12_StrictPromotesWarnings ==
    /\ (lret.op = "validate_stage1" /\ lret.arg.strict /\ Stage1Loadable /\ Violations > 0)
          => /\ lret.kind = "raise"
             /\ lret.exc.type = "ValidationError"
    /\ (ValidatedStage1 /\ lret.arg.strict /\ Violations > 0)
          => /\ lret.kind = "exit"
             /\ lret.val = Num(1)
             /\ lret.model.warnings = <<>>
    /\ (ValidatedStage1 /\ ~lret.arg.strict /\ ~lret.arg.all /\ Violations > 0)
          => /\ lret.kind = "exit"
             /\ lret.val = Num(0)
             /\ Len(lret.model.warnings) = Violations

\* validate --strict exited 1 on data that only has cross-reference
\* violations.
C12_Witness ==
    /\ ValidatedStage1
    /\ lret.arg.strict
    /\ ~lret.arg.all
    /\ Violations > 0
    /\ lret.val = Num(1)

\* The assignment file of a semester is there and loads.
Loads(s) ==
    /\ IsFile(disk, AssignmentsPath(s))
    /\ At(disk, AssignmentsPath(s)).text.json
    /\ At(disk, AssignmentsPath(s)).text.shape

\* C13: load_all_teaching_assignments() fails only when a semester file
\* that is there cannot be loaded; otherwise its mapping has semester s, of
\* 1 and 3, exactly when the file of s exists, holding what that file
\* holds, whether or not the other file exists.
C13_MissingSemesterIsOmitted ==
    lret.op = "load_all_teaching_assignments" =>
        /\ lret.kind = "raise" <=>
              \E s \in Semesters : Exists(disk, AssignmentsPath(s)) /\ ~Loads(s)
        /\ lret.kind = "return" =>
              /\ DOMAIN lret.val \subseteq Semesters
              /\ \A s \in Semesters :
                    /\ s \in DOMAIN lret.val <=> Exists(disk, AssignmentsPath(s))
                    /\ s \in DOMAIN lret.val =>
                          /\ Loads(s)
                          /\ lret.val[s] = OnDisk(AssignmentsPath(s))

\* Semester 3 was returned although the file of semester 1 is missing.
C13_Witness ==
    /\ lret.op = "load_all_teaching_assignments"
    /\ lret.kind = "return"
    /\ ~Exists(disk, AssignmentsPath(1))
    /\ DOMAIN lret.val = {3}

NoDirectory == At(disk, DataDir).kind # "dir"

C15_ExitCodeTellsFailure ==
    lret.kind = "exit" =>
        /\ lret.val = Num(0) <=> lret.model.errors = <<>>
        /\ (lret.val # Num(0) /\ lret.op # "schema validate") => lret.val = Num(1)

(***************************************************************************)
(* Several SchemaValidator instances.  Here _schema_cache maps each        *)
(* instance to its own self._schema_cache; input records who was called:   *)
(* an instance, or a module-level function with its data.                  *)
(***************************************************************************)
MaxInstances == 2

Instances == 1..MaxInstances

\* SchemaValidator.__init__: self._schema_cache = {}
SchemaValidator == [n \in {} |-> NoObj]

\* A cache that is one dict of the class, shared by every instance.
OwnCache_shared(caches, self, c) == [i \in DOMAIN caches |-> c]

\* self._schema_cache is an attribute of the instance
OwnCache(caches, self, c) == [caches EXCEPT ![self] = c]

\* validator = SchemaValidator(schemas_dir); return validator.validate_data(...)
validate_json(d, live, data, schema_name) ==
    validate_data(SchemaValidator, d, live, data, schema_name)

\* validator = SchemaValidator(schemas_dir); return validator.validate_file(...)
validate_json_file(d, live, filepath, schema_name) ==
    validate_file(SchemaValidator, d, live, filepath, schema_name)

\* Objects referenced by the caller or by some instance's cache.
Held ==
    Live \cup UNION {{_schema_cache[i][n].id : n \in DOMAIN _schema_cache[i]} :
                        i \in Instances}

OnInstance(op, self, name, path, o) ==
    /\ ret' = Seen(op, name, path, o)
    /\ _schema_cache' = OwnCache(_schema_cache, self, o.cache)
    /\ input' = [name |-> "self", data |-> Num(self)]
    /\ UNCHANGED <<disk, loaderVars>>

OnModule(op, name, path, data, o) ==
    /\ ret' = Seen(op, name, path, o)
    /\ input' = [name |-> "module", data |-> data]
    /\ UNCHANGED <<disk, _schema_cache, loaderVars>>

InstanceGetSchema(self, name) ==
    OnInstance("get_schema", self, name, NoPath,
               get_schema(_schema_cache[self], disk, Held, name))

InstanceValidateData(self, data, name) ==
    OnInstance("validate_data", self, name, NoPath,
               validate_data(_schema_cache[self], disk, Held, data, name))

InstanceValidateFile(self, path, name) ==
    OnInstance("validate_file", self, name, path,
               validate_file(_schema_cache[self], disk, Held, path, name))

InstanceClearCache(self) ==
    /\ _schema_cache' = OwnCache(_schema_cache, self, clear_cache(_schema_cache[self]))
    /\ ret' = [Idle EXCEPT !.op = "clear_cache", !.kind = "return"]
    /\ input' = [name |-> "self", data |-> Num(self)]
    /\ UNCHANGED <<disk, loaderVars>>

ValidateJson(data, name) ==
    OnModule("validate_json", name, NoPath, data,
             validate_json(disk, Held, data, name))

ValidateJsonFile(path, name) ==
    OnModule("validate_json_file", name, path, Null,
             validate_json_file(disk, Held, path, name))

\* The schema files are edited between the calls.
EditSchema(name, text) ==
    WriteFile(SchemaPath(name), text)

DropSchema(name) ==
    RemoveFile(SchemaPath(name))

InitInstances ==
    /\ disk = [p \in Paths |->
                 IF p = SchemaPath("faculty") THEN File(Dumps(FacultySchema))
                 ELSE IF p \in DataPaths THEN File(Dumps(GoodDoc))
                 ELSE Missing]
    /\ _schema_cache = [i \in Instances |-> SchemaValidator]
    /\ ret = Idle
    /\ input = NoInput
    /\ _cache = <<>>
    /\ lret = LIdle

\* The schema the instances and the module-level calls are asked for.
Asked == {"faculty"}

NextInstances ==
    \/ \E self \in Instances : \E n \in Asked : InstanceGetSchema(self, n)
    \/ \E self \in Instances : \E n \in Asked : InstanceValidateData(self, GoodDoc, n)
    \/ \E self \in Instances : \E n \in Asked : \E p \in DataPaths :
          InstanceValidateFile(self, p, n)
    \/ \E self \in Instances : InstanceClearCache(self)
    \/ \E n \in Asked : \E data \in {GoodDoc, BadDoc} : ValidateJson(data, n)
    \/ \E n \in Asked : \E p \in DataPaths : ValidateJsonFile(p, n)
    \/ \E n \in Asked : \E text \in {Dumps(FacultySchema), Dumps(CustomSchema)} :
          EditSchema(n, text)
    \/ \E n \in Asked : DropSchema(n)

InstancesSpec == InitInstances /\ [][NextInstances]_vars

\* The document a module-level call validated.
ValidatedByModule ==
    IF ret.op = "validate_json" THEN input.data
    ELSE JsonLoad(At(disk, ret.path).text).v

\* The call was made on an instance other than i, or on none.
NotCalledOn(i) == input'.name # "self" \/ input'.data # Num(i)

\* What a module-level call returned is what the schema file on disk says
\* of the document, whatever the instances have cached.
ModuleCallReadsDisk ==
    (ret.op \in {"validate_json", "validate_json_file"}) =>
        /\ ~Exists(disk, SchemaPath(ret.name)) =>
              /\ ret.kind = "raise"
              /\ ret.exc.type = "DataLoadError"
        /\ ret.kind = "return" =>
              /\ ValidJson(SchemaFileOf(ret.name))
              /\ SchemaPath(ret.name) \in {ret.opened[i] : i \in 1..Len(ret.opened)}
              /\ ret.errs = <<>> <=> Satisfies(SchemaOnDisk(ret.name), ValidatedByModule)

\* C21: a call on one instance, or a module-level call, leaves the cache
\* of every other instance as it was, entry for entry; and a module-level
\* validate_json / validate_json_file validates against the schema file as
\* it is on disk when called.
C21_EachInstanceOwnsItsCache ==
    /\ [][\A i \in Instances : NotCalledOn(i) => _schema_cache'[i] = _schema_cache[i]]_vars
    /\ [](ModuleCallReadsDisk)

\* One instance still holds the schema it cached, the other holds none,
\* and a module-level call has just validated against a file that was
\* edited since the first instance cached it.
C21_Witness ==
    /\ ret.op = "validate_json"
    /\ ret.kind = "return"
    /\ "faculty" \in DOMAIN _schema_cache[1]
    /\ "faculty" \notin DOMAIN _schema_cache[2]
    /\ ret.name = "faculty"
    /\ _schema_cache[1]["faculty"].doc # SchemaOnDisk("faculty")
    /\ ret.errs # <<>>
    /\ input.data = GoodDoc

(***************************************************************************)
(* The build runners (cli/build_stages).  A script on disk is held by what *)
(* running it does: whether the interpreter can be started on it, and the  *)
(* exit code of the process.  A build gives the list of result entries it  *)
(* returns, the scripts it ran and the loader calls it made, in order.     *)
(***************************************************************************)
Stages == {2, 3, 4, 5, 6}

StageName(stage) ==
    CASE stage = 1 -> "1" [] stage = 2 -> "2" [] stage = 3 -> "3" [] stage = 4 -> "4"
      [] stage = 5 -> "5" [] OTHER -> "6"

\* get_scripts_dir(stage)
get_scripts_dir(stage) == "scripts/stage" \o StageName(stage)

Script(name, description) == [name |-> name, description |-> description]

\* What a script file does when it is run.
Runs(starts, exit) == [starts |-> starts, exit |-> exit]

Entry(description, success, output) ==
    [description |-> description, success |-> success, output |-> output]

\* run_script: (returncode == 0, output), or (False, "Error: ...") when
\* subprocess.run raises
run_script(d, script_path) ==
    IF At(d, script_path).text.starts
    THEN [success |-> At(d, script_path).text.exit = 0,
          output |-> <<"exited", At(d, script_path).text.exit>>]
    ELSE [success |-> FALSE, output |-> <<"Error", ":", "OSError">>]

\* build_scripts of each runner; extra is reports (stage 3) or views (stage 6)
build_scripts(stage, do_validate, extra) ==
    CASE stage = 2 ->
            <<Script("build_subjects_full.py", "Building subjects with components"),
              Script("build_faculty_full.py", "Building faculty with workload")>>
                \o (IF do_validate
                    THEN <<Script("validate_stage2.py", "Validating Stage 2 data")>>
                    ELSE <<>>)
      [] stage = 3 ->
            <<Script("generate_overlap_matrix.py", "Generating overlap constraints"),
              Script("build_assignments_sem3.py", "Building Semester 3 assignments"),
              Script("build_assignments_sem1.py", "Building Semester 1 assignments")>>
                \o (IF do_validate
                    THEN <<Script("validate_stage3.py", "Validating assignments")>>
                    ELSE <<>>)
                \o <<Script("generate_statistics.py", "Generating statistics")>>
                \o (IF extra
                    THEN <<Script("generate_reports.py", "Generating reports")>>
                    ELSE <<>>)
      [] stage = 4 ->
            <<Script("build_scheduling_input.py",
                     "Building scheduling input for AI solver")>>
                \o (IF do_validate
                    THEN <<Script("validate_stage4.py", "Validating Stage 4 data")>>
                    ELSE <<>>)
      [] stage = 5 ->
            <<Script("generate_schedule_template.py", "Generating AI schedule template")>>
                \o (IF do_validate
                    THEN <<Script("validate_stage5.py", "Validating Stage 5 data")>>
                    ELSE <<>>)
      [] OTHER ->
            <<Script("enrich_schedule.py", "Enriching schedule with full details"),
              Script("analyze_schedule.py", "Analyzing schedule quality")>>
                \o (IF do_validate
                    THEN <<Script("validate_assignments.py",
                                  "Validating enriched assignments")>>
                    ELSE <<>>)
                \o (IF extra
                    THEN <<Script("generate_faculty_views.py", "Generating faculty views"),
                           Script("generate_student_views.py", "Generating student views")>>
                    ELSE <<>>)

\* The loader calls of the prerequisites check, with their names.
PrerequisiteCalls(stage) ==
    CASE stage = 2 -> <<"load_subjects", "load_faculty">>
      [] stage = 3 -> <<"load_faculty_full", "load_subjects_full">>
      [] stage = 4 -> <<"load_teaching_assignments(1)", "load_teaching_assignments(3)",
                        "load_overlap_constraints">>
      [] stage = 5 -> <<"load_scheduling_input">>
      [] OTHER -> <<"load_ai_schedule">>

Prerequisites(d, stage) ==
    CASE stage = 2 -> <<load_subjects(d), load_faculty(<<>>, d)>>
      [] stage = 3 -> <<load_stage_file(d, FacultyFullPath),
                        load_stage_file(d, SubjectsFullPath)>>
      [] stage = 4 -> <<load_teaching_assignments(d, 1), load_teaching_assignments(d, 3),
                        load_stage_file(d, OverlapPath)>>
      [] stage = 5 -> <<load_stage_file(d, SchedulingInputPath)>>
      [] OTHER -> <<load_stage_file(d, AiSchedulePath)>>

\* What build_stageN gives: the list it returns, or the exception it lets
\* through.
Built(results, ran, loads) ==
    [LReturns(<<>>) EXCEPT !.val = results, !.model = [ran |-> ran, loads |-> loads]]

BuildRaises(e, loads) ==
    [LRaises(e, <<>>) EXCEPT !.val = <<>>, !.model = [ran |-> <<>>, loads |-> loads]]

\* The body of "for script_name, description in build_scripts" for a
\* script that is there.
Attempt(d, stage, script) ==
    IF script.name = "enrich_schedule.py" /\ ~Exists(d, AiSchedulePath)
    THEN [ran |-> <<>>,
          entry |-> Entry(script.description, FALSE,
                          <<"Schedule", "file", "not", "found", ":", AiSchedulePath>>)]
    ELSE [ran |-> <<script.name>>,
          entry |-> Entry(script.description,
                          run_script(d, get_scripts_dir(stage) \o "/" \o script.name).success,
                          run_script(d, get_scripts_dir(stage) \o "/" \o script.name).output)]

\* A loop that gives up at the first script that is missing or fails.
RECURSIVE RunScripts_until_failure(_, _, _, _, _, _, _)
RunScripts_until_failure(d, stage, scripts, i, results, ran, loads) ==
    IF i > Len(scripts) THEN Built(results, ran, loads)
    ELSE IF ~Exists(d, get_scripts_dir(stage) \o "/" \o scripts[i].name)
    THEN Built(Append(results,
                      Entry(scripts[i].description, FALSE,
                            <<"Script", "not", "found", ":", scripts[i].name>>)),
               ran, loads)
    ELSE IF ~Attempt(d, stage, scripts[i]).entry.success
    THEN Built(Append(results, Attempt(d, stage, scripts[i]).entry),
               ran \o Attempt(d, stage, scripts[i]).ran, loads)
    ELSE RunScripts_until_failure(d, stage, scripts, i + 1,
                                  Append(results, Attempt(d, stage, scripts[i]).entry),
                                  ran \o Attempt(d, stage, scripts[i]).ran, loads)

RECURSIVE RunScripts(_, _, _, _, _, _, _)
\* for script_name, description in build_scripts: a missing script is a
\* failed entry (continue), any other is run and its outcome appended
RunScripts(d, stage, scripts, i, results, ran, loads) ==
    IF i > Len(scripts) THEN Built(results, ran, loads)
    ELSE IF ~Exists(d, get_scripts_dir(stage) \o "/" \o scripts[i].name)
    THEN RunScripts(d, stage, scripts, i + 1,
                    Append(results,
                           Entry(scripts[i].description, FALSE,
                                 <<"Script", "not", "found", ":", scripts[i].name>>)),
                    ran, loads)
    ELSE RunScripts(d, stage, scripts, i + 1,
                    Append(results, Attempt(d, stage, scripts[i]).entry),
                    ran \o Attempt(d, stage, scripts[i]).ran, loads)

\* try: the loads; results.append(("Prerequisites check", True, ...))
\* except TimetableError: results.append((..., False, ...)); return results
Gate(d, stage, scripts, loads) ==
    IF FirstRaise(loads) = 0
    THEN RunScripts(d, stage, scripts, 1,
                    <<Entry("Prerequisites check", TRUE,
                            <<"Stage", StageName(stage - 1), "data", "found">>)>>,
                    <<>>, PrerequisiteCalls(stage))
    ELSE IF IsTimetableError(loads[FirstRaise(loads)].exc)
    THEN Built(<<Entry("Prerequisites check", FALSE,
                       <<"Stage", StageName(stage - 1), "data", "not", "found", "or",
                         "invalid", ":">> \o ExcStr(loads[FirstRaise(loads)].exc))>>,
               <<>>, SubSeq(PrerequisiteCalls(stage), 1, FirstRaise(loads)))
    ELSE BuildRaises(loads[FirstRaise(loads)].exc,
                     SubSeq(PrerequisiteCalls(stage), 1, FirstRaise(loads)))

\* build_stage2 ... build_stage6
build_stage(d, data_path, stage, do_validate, extra) ==
    IF ~Exists(d, get_scripts_dir(stage))
    THEN Built(<<Entry("Stage " \o StageName(stage) \o " scripts", FALSE,
                       <<"Scripts", "directory", "not", "found", ":",
                         get_scripts_dir(stage)>>)>>,
               <<>>, <<>>)
    ELSE IF DataLoader(d, data_path, FALSE).kind = "raise"
    THEN BuildRaises(DataLoader(d, data_path, FALSE).exc, <<>>)
    ELSE Gate(d, stage, build_scripts(stage, do_validate, extra), Prerequisites(d, stage))

(***************************************************************************)
(* The runners as a state machine: one installation and data directory,    *)
(* and one build run on them.                                              *)
(***************************************************************************)
AllScripts(stage) == build_scripts(stage, TRUE, TRUE)

ScriptPathOf(stage, i) == get_scripts_dir(stage) \o "/" \o AllScripts(stage)[i].name

ScriptPaths(stage) == {ScriptPathOf(stage, i) : i \in 1..Len(AllScripts(stage))}

\* What can be wrong with a script: it is not there, it exits non-zero,
\* or the process cannot be started.
Faults == {Missing, File(Runs(TRUE, 1)), File(Runs(TRUE, 2)), File(Runs(FALSE, 0))}

\* The scripts of a stage, all exiting 0 but for those of broke.
Installed(stage, broke) ==
    [p \in {get_scripts_dir(stage)} \cup ScriptPaths(stage) |->
        IF p = get_scripts_dir(stage) THEN Dir
        ELSE IF p \in DOMAIN broke THEN broke[p]
        ELSE File(Runs(TRUE, 0))]

\* No script, one script or two scripts at fault.
Installations(stage) ==
    {Installed(stage, <<>>)}
      \cup {Installed(stage, [p \in {q} |-> f]) : q \in ScriptPaths(stage), f \in Faults}
      \cup {Installed(stage, [p \in {q, r} |-> IF p = q THEN Missing ELSE f]) :
               q \in ScriptPaths(stage), r \in ScriptPaths(stage),
               f \in {Missing, File(Runs(TRUE, 1))}}
      \cup {[p \in {get_scripts_dir(stage)} |-> Missing]}

\* The data directories a build is run on.
BuildData ==
    {GoodDisk}
      \cup {[GoodDisk EXCEPT ![p] = f] :
               p \in {Subjects1Path, FacultyFullPath, SubjectsFullPath, AssignmentsPath(1),
                      AssignmentsPath(3), OverlapPath, SchedulingInputPath,
                      AiSchedulePath},
               f \in {Missing, File(BadShape)}}
      \cup {[GoodDisk EXCEPT ![FacultyPath] = File(NotJsonText)],
            [GoodDisk EXCEPT ![Subjects1Path] = Missing, ![Subjects3Path] = Missing],
            NoDataDir(Missing, Missing), NoDataDir(File(<<>>), Missing)}

\* The files of the data directory and of the installation together.
Both(data, scripts) ==
    [p \in DOMAIN data \cup DOMAIN scripts |->
        IF p \in DOMAIN scripts THEN scripts[p] ELSE data[p]]

BuildOptions(stage, do_validate, extra) ==
    [stage |-> stage, all |-> do_validate, strict |-> extra, file |-> NoPath, schema |-> ""]

\* Every fault on good data, and every data directory on a good and on a
\* partly missing installation.
BuildRuns ==
    UNION {{[disk |-> Both(GoodDisk, scripts),
             input |-> [name |-> "build", data |-> BuildOptions(stage, do_validate, extra)]] :
               scripts \in Installations(stage), do_validate \in BOOLEAN, extra \in BOOLEAN}
             \cup {[disk |-> Both(data, scripts),
                    input |-> [name |-> "build",
                               data |-> BuildOptions(stage, TRUE, TRUE)]] :
                      data \in BuildData,
                      scripts \in {Installed(stage, <<>>),
                                   Installed(stage, [p \in {ScriptPathOf(stage, 1)} |->
                                                       Missing]),
                                   [p \in {get_scripts_dir(stage)} |-> Missing]}} :
           stage \in Stages}

\* results = build_stageN(data_path, do_validate, ...)
Build ==
    /\ input.name = "build"
    /\ lret = LIdle
    /\ LCall("build_stage", DataDir, input.data,
             build_stage(disk, DataDir, input.data.stage, input.data.all,
                         input.data.strict))
    /\ UNCHANGED _cache

InitBuild ==
    /\ \E run \in BuildRuns : disk = run.disk /\ input = run.input
    /\ _schema_cache = <<>>
    /\ ret = Idle
    /\ _cache = <<>>
    /\ lret = LIdle

NextBuild == Build

BuildSpec == InitBuild /\ [][NextBuild]_vars

(***************************************************************************)
(* Properties of the build runners.                                        *)
(***************************************************************************)
BuiltStage == lret.arg.stage

ScriptsDirThere == Exists(disk, get_scripts_dir(BuiltStage))

\* The previous stage's data cannot be loaded from the data directory.
PrerequisitesFail ==
    \/ At(disk, DataDir).kind # "dir"
    \/ FirstRaise(Prerequisites(disk, BuiltStage)) # 0

OneFailedEntry ==
    /\ lret.kind = "return"
    /\ Len(lret.val) = 1
    /\ ~lret.val[1].success

\* C22: when the scripts directory exists the result starts with the
\* "Prerequisites check" entry; when the previous stage's data cannot be
\* loaded the result is that one failed entry and no script has been run;
\* when the scripts directory does not exist the result is one failed
\* entry and no data has been loaded.
C22_PrerequisiteGate ==
    lret.op = "build_stage" =>
        /\ ScriptsDirThere =>
              /\ lret.kind = "return"
              /\ lret.val # <<>>
              /\ lret.val[1].description = "Prerequisites check"
        /\ (ScriptsDirThere /\ PrerequisitesFail) =>
              /\ OneFailedEntry
              /\ lret.model.ran = <<>>
        /\ ~ScriptsDirThere =>
              /\ OneFailedEntry
              /\ lret.model.loads = <<>>

\* The scripts the options ask for, in the order stage 3 runs them.
Stage3Order ==
    <<"generate_overlap_matrix.py", "build_assignments_sem3.py",
      "build_assignments_sem1.py">>
        \o (IF lret.arg.all THEN <<"validate_stage3.py">> ELSE <<>>)
        \o <<"generate_statistics.py">>
        \o (IF lret.arg.strict THEN <<"generate_reports.py">> ELSE <<>>)

Listed3 == build_scripts(BuiltStage, lret.arg.all, lret.arg.strict)

ScriptFile(i) == At(disk, get_scripts_dir(BuiltStage) \o "/" \o Listed3[i].name)

\* The prerequisites check of the build passed.
GatePassed ==
    /\ lret.op = "build_stage"
    /\ ScriptsDirThere
    /\ ~PrerequisitesFail

\* C23: after a passed prerequisites check the result has one entry per
\* listed script, in the listed order (for stage 3 the order given), after
\* the prerequisites entry; a missing script is a failed entry and is not
\* run, any other is run once and its entry succeeds exactly when the
\* process exits 0; the scripts after a missing or failing one are still
\* run, in order; and the runner returns.
C23_ScriptsAttemptedInOrder ==
    GatePassed =>
        /\ lret.kind = "return"
        /\ Len(lret.val) = 1 + Len(Listed3)
        /\ lret.val[1].success
        /\ BuiltStage = 3 =>
              [i \in 1..Len(Listed3) |-> Listed3[i].name] = Stage3Order
        /\ \A i \in 1..Len(Listed3) :
              /\ lret.val[i + 1].description = Listed3[i].description
              /\ lret.val[i + 1].success <=>
                    /\ ScriptFile(i).kind = "file"
                    /\ ScriptFile(i).text.starts
                    /\ ScriptFile(i).text.exit = 0
        /\ lret.model.ran =
              SelectSeq([i \in 1..Len(Listed3) |-> Listed3[i].name],
                        LAMBDA n : Exists(disk, get_scripts_dir(BuiltStage) \o "/" \o n))

\* Stage 3 with validation and reports: the second script is missing, a
\* later one exits non-zero, and the five that are there were all run.
C23_Witness ==
    /\ GatePassed
    /\ BuiltStage = 3
    /\ lret.arg.all
    /\ lret.arg.strict
    /\ Len(lret.val) = 7
    /\ ~lret.val[3].success
    /\ ScriptFile(2).kind = "missing"
    /\ ScriptFile(5).kind = "file"
    /\ ~lret.val[6].success
    /\ lret.val[7].success
    /\ Len(lret.model.ran) = 5

(***************************************************************************)
(* core/logging.py: setup_logging on the process-wide "timetable" logger.  *)
(* In this specification _cache holds the module's globals together with   *)
(* the logger that logging.getLogger("timetable") returns, input the       *)
(* arguments of the last call and lret its outcome.  The formatters are    *)
(* left out: they do not decide which handlers exist.                     *)
(***************************************************************************)
PACKAGE_NAME == "timetable"

LogDir == "logs"

LogFile == "logs/timetable.log"

\* str.upper() on the level names that are called with
Upper(level) ==
    CASE level = "debug" -> "DEBUG"
      [] level = "info" -> "INFO"
      [] level = "basic_format" -> "BASIC_FORMAT"
      [] OTHER -> level

\* getattr(logging, name, None) for an upper-case name
logging_getattr(name) ==
    CASE name \in {"CRITICAL", "FATAL"} -> Num(50)
      [] name = "ERROR" -> Num(40)
      [] name \in {"WARNING", "WARN"} -> Num(30)
      [] name = "INFO" -> Num(20)
      [] name = "DEBUG" -> Num(10)
      [] name = "NOTSET" -> Num(0)
      [] name = "BASIC_FORMAT" -> Str("%(levelname)s:%(name)s:%(message)s")
      [] OTHER -> Null

\* A handler object: its class, its level and the file it has open.
Handler(class, level, path) == [class |-> class, level |-> level, path |-> path]

\* logging.getLogger(PACKAGE_NAME) before anything configured it
NewLogger == [name |-> PACKAGE_NAME, level |-> 0, handlers |-> <<>>, propagate |-> TRUE]

Globals(rich) ==
    [RICH_AVAILABLE |-> rich, _logging_configured |-> FALSE, logger |-> NewLogger]

LogOutcome(g, d, kind, e) == [globals |-> g, disk |-> d, kind |-> kind, exc |-> e]

\* if use_rich and RICH_AVAILABLE: RichHandler(...) else: StreamHandler(sys.stderr)
console_handler(g, use_rich, numeric_level) ==
    IF use_rich /\ g.RICH_AVAILABLE
    THEN Handler("RichHandler", numeric_level, NoPath)
    ELSE Handler("StreamHandler", numeric_level, NoPath)

\* logger.handlers.clear(), left out
Cleared_kept(handlers) == handlers

\* logger.handlers.clear()
Cleared(handlers) == <<>>

\* logger.setLevel(numeric_level); logger.handlers.clear();
\* logger.addHandler(console_handler)
WithConsole(g, use_rich, numeric_level) ==
    [g EXCEPT !.logger.level = numeric_level,
              !.logger.handlers =
                  Append(Cleared(@), console_handler(g, use_rich, numeric_level))]

\* log_path.parent.mkdir(parents=True, exist_ok=True), the parent not being a file
Mkdir(d, p) == IF Exists(d, p) THEN d ELSE [d EXCEPT ![p] = Dir]

\* open(log_path, "a"): creates the file when there is none
OpenAppend(d, p) == IF Exists(d, p) THEN d ELSE [d EXCEPT ![p] = File(<<>>)]

\* logger.propagate = False; _logging_configured = True
Configured(g, d) ==
    LogOutcome([g EXCEPT !.logger.propagate = FALSE, !._logging_configured = TRUE],
               d, "return", NoExc)

\* if log_file: ... logger.addHandler(file_handler)
\* mkdir raises FileExistsError when the parent is a file, FileHandler raises
\* IsADirectoryError when the path is a directory; both leave what was done
\* before them in place.
WithFile(g, d, log_file, numeric_level) ==
    IF log_file.t = "null" \/ log_file.s = ""
    THEN Configured(g, d)
    ELSE IF IsFile(d, LogDir)
    THEN LogOutcome(g, d, "raise", BuiltinError("FileExistsError", LogDir))
    ELSE IF At(d, log_file.s).kind = "dir"
    THEN LogOutcome(g, Mkdir(d, LogDir), "raise",
                    BuiltinError("IsADirectoryError", log_file.s))
    ELSE Configured(
             [g EXCEPT !.logger.handlers =
                           Append(@, Handler("FileHandler", numeric_level, log_file.s))],
             OpenAppend(Mkdir(d, LogDir), log_file.s))

setup_logging(g, d, level, log_file, use_rich) ==
    IF logging_getattr(Upper(level)).t # "num"
    THEN LogOutcome(g, d, "raise", BuiltinError("ValueError", Upper(level)))
    ELSE WithFile(WithConsole(g, use_rich, logging_getattr(Upper(level)).n), d,
                  log_file, logging_getattr(Upper(level)).n)

LevelArgs == {"DEBUG", "debug", "INFO", "WARNING", "INVALID_LEVEL", "basic_format"}

LogFileArgs == {Null, Str(""), Str(LogFile)}

LogArgs(level, log_file, use_rich) ==
    [level |-> level, log_file |-> log_file, use_rich |-> use_rich]

\* What may be where the log file goes.
LogDisks ==
    {[p \in {LogDir, LogFile} |-> Missing],
     [p \in {LogDir, LogFile} |-> IF p = LogDir THEN Dir ELSE Missing],
     [p \in {LogDir, LogFile} |-> IF p = LogDir THEN Dir ELSE File(<<>>)],
     [p \in {LogDir, LogFile} |-> Dir],
     [p \in {LogDir, LogFile} |-> IF p = LogDir THEN File(<<>>) ELSE Missing]}

SetupLoggingCall(a, o) ==
    /\ _cache' = o.globals
    /\ disk' = o.disk
    /\ input' = a
    /\ lret' = [LIdle EXCEPT !.op = "setup_logging", !.kind = o.kind, !.exc = o.exc]
    /\ UNCHANGED <<_schema_cache, ret>>

SetupLogging ==
    \E level \in LevelArgs, log_file \in LogFileArgs, use_rich \in BOOLEAN :
        SetupLoggingCall(LogArgs(level, log_file, use_rich),
                         setup_logging(_cache, disk, level, log_file, use_rich))

InitLogging ==
    /\ disk \in LogDisks
    /\ _cache \in {Globals(rich) : rich \in BOOLEAN}
    /\ _schema_cache = <<>>
    /\ ret = Idle
    /\ input = LogArgs("", Null, FALSE)
    /\ lret = LIdle

NextLogging == SetupLogging

LoggingSpec == InitLogging /\ [][NextLogging]_vars

\* The handlers of the logger that write to the console, and those that write
\* to a file.
ConsoleHandlers(logger) ==
    {i \in 1..Len(logger.handlers) :
        logger.handlers[i].class \in {"RichHandler", "StreamHandler"}}

FileHandlers(logger) ==
    {i \in 1..Len(logger.handlers) : logger.handlers[i].class = "FileHandler"}

GaveLogFile(a) == a.log_file.t = "str" /\ a.log_file.s # ""

\* The logger is as a call with arguments a asks for.
AsAsked(logger, a) ==
    /\ Cardinality(ConsoleHandlers(logger)) = 1
    /\ Cardinality(FileHandlers(logger)) = (IF GaveLogFile(a) THEN 1 ELSE 0)
    /\ logger.level = logging_getattr(Upper(a.level)).n
    /\ logger.propagate = FALSE

\* C24 as stated: a call that succeeds leaves the logger with one console
\* handler, one file handler exactly when a log_file was given, the call's
\* level and propagate false; every call that does not succeed leaves the
\* logger as it was, so that the logger is determined by the most recent
\* successful call.
C24_LastSuccessfulCallDecides ==
    [][IF lret'.kind = "return"
       THEN AsAsked(_cache'.logger, input')
       ELSE _cache'.logger = _cache.logger]_vars

\* C24, amended: handlers never accumulate, a call that succeeds leaves the
\* logger as that call asks for, a call with an invalid level raises
\* ValueError and leaves the logger as it was, and a call that fails while
\* opening its log file has already set the level and replaced the handlers
\* by one console handler.
C24_LastValidLevelDecides ==
    /\ [](/\ Cardinality(ConsoleHandlers(_cache.logger)) <= 1
          /\ Cardinality(FileHandlers(_cache.logger)) <= 1
          /\ Len(_cache.logger.handlers) <= 2)
    /\ [][CASE lret'.kind = "return" -> AsAsked(_cache'.logger, input')
            [] lret'.exc.type = "ValueError" ->
                  /\ logging_getattr(Upper(input'.level)).t # "num"
                  /\ _cache'.logger = _cache.logger
            [] OTHER ->
                  /\ GaveLogFile(input')
                  /\ _cache'.logger.level = logging_getattr(Upper(input'.level)).n
                  /\ Cardinality(ConsoleHandlers(_cache'.logger)) = 1
                  /\ Cardinality(FileHandlers(_cache'.logger)) = 0
                  /\ _cache'.logger.propagate = _cache.logger.propagate]_vars

\* A configured logger with a file handler has just survived a call with an
\* invalid level.
C24_Witness ==
    /\ lret.op = "setup_logging"
    /\ lret.kind = "raise"
    /\ lret.exc.type = "ValueError"
    /\ _cache._logging_configured
    /\ Cardinality(FileHandlers(_cache.logger)) = 1
    /\ _cache.logger.level = 10


\* validate --all ran on a data directory that is there.
ValidatedAll == lret.op = "validate" /\ lret.arg.all /\ ~NoDirectory

\* The stages of the results that were recorded, in order.
StagesOf(results) == [i \in 1..Len(results) |-> results[i].stage]

\* C25: validate --all on an existing data directory validates stages 1, 2
\* and 3 in that order and records one result per stage, whatever fails in a
\* stage; it exits with 1 exactly when some stage failed, and with 0
\* otherwise.
C25_EveryStageIsValidated ==
    ValidatedAll =>
        /\ lret.kind = "exit"
        /\ StagesOf(lret.model.results) = <<1, 2, 3>>
        /\ lret.val = Num(1) <=> \E i \in 1..3 : ~lret.model.results[i].success
        /\ lret.val \in {Num(0), Num(1)}


(***************************************************************************)
(* The export commands with their --format option, run one after another   *)
(* while the clock moves on: input holds the command, the format and the   *)
(* time of the run, disk gains what a run writes.                          *)
(***************************************************************************)
Later == "20260101_090001"

ExportOptions(output_format, timestamp) ==
    [format |-> output_format, timestamp |-> timestamp]

ExportInputs ==
    {[name |-> n, data |-> ExportOptions(f, Now)] :
        n \in {"export statistics", "export all"}, f \in Formats}

ExportDisks ==
    {GoodDisk} \cup DamagedDisks \cup SemesterDisks
        \cup {NoDataDir(at, Missing) : at \in {Missing, File(<<>>)}}

ExportStatisticsAs ==
    ExportCall("export statistics",
               export_statistics(disk, DataDir, input.data.format, input.data.timestamp))

ExportAllAs ==
    ExportCall("export all",
               export_all(disk, DataDir, input.data.format, input.data.timestamp))

\* A second passes before the command is run again.
Tick ==
    /\ lret # LIdle
    /\ input.data.timestamp = Now
    /\ input' = [input EXCEPT !.data.timestamp = Later]
    /\ lret' = LIdle
    /\ UNCHANGED <<disk, _schema_cache, ret, _cache>>

InitExport ==
    /\ disk \in ExportDisks
    /\ _schema_cache = <<>>
    /\ ret = Idle
    /\ input \in ExportInputs
    /\ _cache = <<>>
    /\ lret = LIdle

NextExport ==
    \/ ExportStatisticsAs
    \/ ExportAllAs
    \/ Tick

ExportSpec == InitExport /\ [][NextExport]_vars

\* The statistics file of the data directory is there and valid.
StatisticsValid ==
    /\ ~NoDirectory
    /\ load_stage_file(disk, StatisticsPath).kind = "return"

StatisticsExport(options) ==
    "exports/statistics_" \o options.timestamp \o "." \o options.format

\* C26: export statistics on a valid statistics file, in every format,
\* reads only fields the statistics models have, writes exactly one file,
\* statistics_<timestamp>.<format>, and exits with 0.
C26_StatisticsExportedInEveryFormat ==
    (lret.op = "export statistics" /\ StatisticsValid) =>
        /\ FirstMissing(StatisticsReads(lret.arg.format)) = 0
        /\ lret.kind = "exit"
        /\ lret.val = Num(0)
        /\ Len(lret.model.written) = 1
        /\ lret.model.written[1].path = StatisticsExport(lret.arg)
        /\ IsFile(disk, StatisticsExport(lret.arg))


\* The six exports of the run that has just ended, and where they write.
Exports == ExportEntities(disk, lret.arg.format)

ExportPath(options, file) ==
    "exports/export_" \o options.timestamp \o "/" \o file \o "." \o options.format

InSummary(name) ==
    \E i \in 1..Len(lret.model.results) : lret.model.results[i] = name

Warned(label) ==
    \E i \in 1..Len(lret.model.errors) :
        SubSeq(lret.model.errors[i], 1, Len(label)) = label

\* C27: export all on an existing data directory exits with 0 having
\* attempted each of the six exports whatever happened to the others: an
\* export whose data loads is in the summary, one whose data does not load
\* is warned about and is not; and every row of the summary, in every
\* format, stands for a file that is in the export directory.
C27_SummaryRowsAreFilesWritten ==
    (lret.op = "export all" /\ ~NoDirectory) =>
        /\ lret.kind = "exit"
        /\ lret.val = Num(0)
        /\ \A i \in 1..Len(Exports) :
              /\ Exports[i].load.kind = "return" <=> InSummary(Exports[i].name)
              /\ Exports[i].load.kind = "raise" <=> Warned(Exports[i].label)
              /\ InSummary(Exports[i].name)
                    => IsFile(disk, ExportPath(lret.arg, Exports[i].file))


(***************************************************************************)
(* Schema names: the names schema validate finds a data file for, looked   *)
(* up by a fresh SchemaValidator over a schemas directory.  input.name is  *)
(* the name the run is given.                                              *)
(***************************************************************************)
\* SchemaValidator.list_schemas(): the keys of SCHEMA_MAP
list_schemas == Listed(DOMAIN SCHEMA_MAP)

\* The names schema validate infers a file for.
Inferable == DOMAIN FileMap

AllNames == Inferable \cup DOMAIN SCHEMA_MAP \cup {"custom"}

NamePaths ==
    {DataDir} \cup {SchemaPath(n) : n \in AllNames} \cup {FileMap[n] : n \in Inferable}

\* The schemas directory as the package ships it: the schema files of the
\* registered names; every inferred data file is there.
ShippedDisk ==
    [p \in NamePaths |->
        IF p = DataDir THEN Dir
        ELSE IF p \in {SchemaPath(n) : n \in DOMAIN SCHEMA_MAP}
        THEN File(Dumps(FacultySchema))
        ELSE IF p \in {FileMap[n] : n \in Inferable} THEN File(Dumps(GoodDoc))
        ELSE Missing]

NameDisks ==
    {ShippedDisk}
        \cup {[ShippedDisk EXCEPT ![SchemaPath(n)] = f] :
                 n \in AllNames,
                 f \in {Missing, File(Dumps(CustomSchema)), File(NotJsonText)}}

GetNamedSchema == GetSchema(input.name)

ListSchemas ==
    /\ ret' = [Idle EXCEPT !.op = "list_schemas", !.kind = "return",
                           !.paths = <<list_schemas>>]
    /\ UNCHANGED <<disk, _schema_cache, input, loaderVars>>

InferAndValidate ==
    /\ LCall("schema validate", DataDir, Str(input.name),
             schema_validate(disk, input.name, NoPath, DataDir))
    /\ UNCHANGED _cache

InitNames ==
    /\ disk \in NameDisks
    /\ _schema_cache = <<>>
    /\ ret = Idle
    /\ input \in [name : AllNames, data : {Null}]
    /\ _cache = <<>>
    /\ lret = LIdle

NextNames ==
    \/ GetNamedSchema
    \/ ListSchemas
    \/ InferAndValidate

NamesSpec == InitNames /\ [][NextNames]_vars

\* The file get_schema went to for the name: the one it opened, or the one
\* it did not find.
SchemaFileUsed ==
    IF ret.opened # <<>> THEN ret.opened[1] ELSE ret.exc.filepath

\* get_schema was not answered from the cache.
WentToFile == ret.op = "get_schema" /\ (ret.opened # <<>> \/ ret.kind = "raise")

\* C28: every name schema validate infers a data file for is a key of
\* SCHEMA_MAP: get_schema goes to the file the mapping gives for it, never
\* to <name>.schema.json, and list_schemas() reports it.
C28_InferableNamesAreRegistered ==
    /\ (WentToFile /\ ret.name \in Inferable) =>
          /\ ret.name \in DOMAIN SCHEMA_MAP
          /\ SchemaFileUsed = schemas_dir \o "/" \o SCHEMA_MAP[ret.name]
    /\ ret.op = "list_schemas" =>
          \A n \in Inferable : \E i \in 1..Len(ret.paths[1]) : ret.paths[1][i] = n


(***************************************************************************)
(* scripts/stage4/view_scheduling_input.py: the viewer's main, run with a  *)
(* command and its arguments on a data directory.  input.name is the       *)
(* command ("" when none is given), input.data its arguments.              *)
(***************************************************************************)
\* The methods class SchedulingInputViewer defines.
Methods ==
    {"show_summary", "list_assignments", "show_assignment_details", "show_time_slots",
     "show_slot_combinations", "show_rooms", "show_faculty", "show_student_groups",
     "show_constraint_matrix", "show_help"}

\* The method main calls on the viewer for a command.
Dispatch(command) ==
    CASE command \in {"summary", ""} -> "show_summary"
      [] command = "assignments" -> "list_assignments"
      [] command = "assignment" -> "show_assignment_details"
      [] command = "slots" -> "show_time_slots"
      [] command = "combinations" -> "show_slot_combinations"
      [] command = "rooms" -> "show_rooms"
      [] command = "faculty" -> "show_faculty"
      [] command = "groups" -> "show_student_groups"
      [] command = "constraints" -> "show_constraints"
      [] OTHER -> "show_help"

RECURSIVE Readable(_, _)
\* value[key]...[key] can be read; "*" stands for every item of a list.  A
\* missing key is a KeyError, a subscript on the wrong kind a TypeError.
Readable(v, path) ==
    IF path = <<>> THEN TRUE
    ELSE IF Head(path) = "*"
    THEN v.t = "arr" /\ \A i \in 1..Len(v.a) : Readable(v.a[i], Tail(path))
    ELSE v.t = "obj" /\ Has(v, Head(path)) /\ Readable(Get(v, Head(path)), Tail(path))

\* filter_by.startswith('sem'), for the filters the model passes
StartsWithSem(filter_by) == filter_by \in {"sem1", "sem3", "semester"}

\* int(filter_by.replace('sem', '')) succeeds
IntAfterSem(filter_by) == filter_by \in {"sem1", "sem3"}

AssignmentKeys ==
    {"assignmentId", "subjectTitle", "componentType", "facultyName", "sections",
     "sessionsPerWeek", "sessionDuration", "priority"}

DetailReads ==
    {<<k>> : k \in AssignmentKeys
                 \cup {"subjectCode", "semester", "isElective", "facultyId",
                       "studentGroupIds", "requiresContiguous", "validSlotTypes",
                       "requiresRoomType", "preferredRooms"}}
        \cup {<<"constraints", k>> :
                 k \in {"mustBeInRoom", "studentGroupConflicts", "facultyConflicts",
                        "fixedDay", "fixedSlot"}}

\* The keys a method reads of self.data, every list of it having an item.
Reads(method, args) ==
    CASE method = "show_summary" ->
            {<<"metadata", k>> :
                k \in {"totalAssignments", "semester1Assignments", "semester3Assignments",
                       "totalTimeSlots", "totalRooms"}}
                \cup {<<"constraints", "facultyList">>,
                      <<"constraints", "studentGroupList">>}
      [] method = "list_assignments" ->
            {<<"assignments", "*", k>> : k \in AssignmentKeys}
                \cup (IF args # <<>> /\ StartsWithSem(args[1])
                      THEN {<<"assignments", "*", "semester">>} ELSE {})
      [] method = "show_assignment_details" -> {<<"assignments", "*", "assignmentId">>}
      [] method = "show_time_slots" ->
            {<<"configuration", "weekdays">>}
                \cup {<<"timeSlots", "*", k>> :
                         k \in {"day", "slotId", "start", "end", "durationMinutes"}}
      [] method = "show_slot_combinations" ->
            {<<"slotCombinations", "*", k>> : k \in {"type", "slots", "durationMinutes"}}
      [] method = "show_rooms" ->
            {<<"rooms", "*", k>> : k \in {"type", "roomId", "capacity"}}
      [] method = "show_faculty" ->
            {<<"constraints", "facultyList">>}
                \cup {<<"assignments", "*", k>> :
                         k \in {"facultyId", "sessionsPerWeek", "facultyName"}}
      [] method = "show_student_groups" ->
            {<<"studentGroups", "*", k>> :
                k \in {"groupId", "description", "size", "semester"}}
      [] method = "show_constraint_matrix" ->
            {<<"constraints", "studentGroupOverlap", k>> :
                k \in {"cannotOverlapWith", "canRunParallelWith"}}
      [] OTHER -> {}

\* What main returns and the method that ran to its end; error is the
\* exception a handler of main caught.
Viewed(method) == [code |-> 0, shown |-> method, error |-> ""]

Failed(error) == [code |-> 1, shown |-> "", error |-> error]

\* next((a for a in self.data['assignments'] if a['assignmentId'] == id), None)
Matching(data, assignment_id) ==
    {i \in 1..Len(Get(data, "assignments").a) :
        Get(Get(data, "assignments").a[i], "assignmentId") = Str(assignment_id)}

\* show_assignment_details once the ids were compared
Details(data, matching) ==
    IF matching = {} THEN Viewed("show_assignment_details")
    ELSE IF \E path \in DetailReads :
               ~Readable(Get(data, "assignments").a[
                            CHOOSE i \in matching : \A j \in matching : i <= j], path)
    THEN Failed("KeyError")
    ELSE Viewed("show_assignment_details")

\* getattr(viewer, method)(...), within main's try
CallMethod(data, method, args) ==
    IF method \notin Methods THEN Failed("AttributeError")
    ELSE IF \E path \in Reads(method, args) : ~Readable(data, path)
    THEN Failed("KeyError")
    ELSE IF method = "list_assignments" /\ args # <<>> /\ StartsWithSem(args[1])
              /\ ~IntAfterSem(args[1])
    THEN Failed("ValueError")
    ELSE IF method = "show_assignment_details"
    THEN Details(data, Matching(data, args[1]))
    ELSE Viewed(method)

\* main once SchedulingInputViewer.__init__ has read the file
Dispatched(j, command, args) ==
    IF j.exc # "none" THEN Failed(j.exc)
    ELSE IF command = "assignment" /\ args = <<>>
    THEN [Failed("") EXCEPT !.shown = "usage"]
    ELSE IF Dispatch(command) = "show_help"
    THEN [Failed("") EXCEPT !.shown = "show_help"]
    ELSE CallMethod(j.v, Dispatch(command), args)

main(d, data_dir, command, args) ==
    IF ~Exists(d, SchedulingInputPath) THEN Failed("FileNotFoundError")
    ELSE Dispatched(OpenAndLoad(d, SchedulingInputPath), command, args)

\* A scheduling input with one item in every list.
AssignmentItem ==
    Obj(<<"assignmentId", "subjectTitle", "subjectCode", "componentType", "semester",
          "priority", "isElective", "facultyName", "facultyId", "sections",
          "studentGroupIds", "sessionDuration", "sessionsPerWeek", "requiresContiguous",
          "validSlotTypes", "requiresRoomType", "preferredRooms", "constraints">>,
        <<Str("TA1"), Str("Maths"), Str("S1"), Str("theory"), Num(1), Str("high"),
          Bool(FALSE), Str("Dr. Test"), Str("F001"), Arr(<<Str("A")>>),
          Arr(<<Str("G1")>>), Num(55), Num(3), Bool(FALSE), Arr(<<Str("single")>>),
          Str("lecture"), Arr(<<>>),
          Obj(<<"mustBeInRoom", "studentGroupConflicts", "facultyConflicts", "fixedDay",
                "fixedSlot">>,
              <<Null, Arr(<<>>), Arr(<<>>), Null, Null>>)>>)

SchedulingInput ==
    Obj(<<"metadata", "configuration", "timeSlots", "slotCombinations", "rooms",
          "assignments", "studentGroups", "constraints">>,
        <<Obj(<<"totalAssignments", "semester1Assignments", "semester3Assignments",
                "totalTimeSlots", "totalRooms">>,
              <<Num(1), Num(1), Num(0), Num(1), Num(1)>>),
          Obj(<<"weekdays">>, <<Arr(<<Str("Mon")>>)>>),
          Arr(<<Obj(<<"day", "slotId", "start", "end", "durationMinutes">>,
                    <<Str("Mon"), Str("T1"), Str("09:00"), Str("09:55"), Num(55)>>)>>),
          Arr(<<Obj(<<"type", "slots", "durationMinutes">>,
                    <<Str("single"), Arr(<<Str("T1")>>), Num(55)>>)>>),
          Arr(<<Obj(<<"type", "roomId", "capacity">>,
                    <<Str("lecture"), Str("R1"), Num(60)>>)>>),
          Arr(<<AssignmentItem>>),
          Arr(<<Obj(<<"groupId", "description", "size", "semester">>,
                    <<Str("G1"), Str("Section A"), Num(60), Num(1)>>)>>),
          Obj(<<"facultyList", "studentGroupList", "studentGroupOverlap">>,
              <<Arr(<<Str("F001")>>), Arr(<<Str("G1")>>),
                Obj(<<"cannotOverlapWith", "canRunParallelWith">>,
                    <<Obj(<<"G1">>, <<Arr(<<>>)>>), Obj(<<"G1">>, <<Arr(<<>>)>>)>>)>>)>>)

\* The object without one of its keys.
Without(o, key) ==
    Obj(SelectSeq(o.k, LAMBDA k : k # key),
        [i \in 1..(Len(o.k) - 1) |->
            IF \A j \in 1..i : o.k[j] # key THEN o.a[i] ELSE o.a[i + 1]])

ViewerFiles ==
    {Missing, Dir, File(NotJsonText), File(Dumps(SchedulingInput)),
     File(Dumps(Arr(<<>>))),
     File(Dumps([SchedulingInput EXCEPT
                     !.a[6] = Arr(<<Without(AssignmentItem, "priority")>>)]))}
        \cup {File(Dumps(Without(SchedulingInput, k))) :
                 k \in {SchedulingInput.k[i] : i \in 1..Len(SchedulingInput.k)}}

ViewerCommands ==
    {"", "summary", "assignments", "assignment", "slots", "combinations", "rooms",
     "faculty", "groups", "constraints", "help", "timetable"}

ViewerArgs == {<<>>, <<"TA1">>, <<"sem1">>, <<"theory">>, <<"semester">>}

Main ==
    /\ lret = LIdle
    /\ lret' = [LIdle EXCEPT !.op = "main", !.kind = "exit",
                             !.model = main(disk, DataDir, input.name, input.data)]
    /\ UNCHANGED <<disk, _schema_cache, ret, input, _cache>>

InitViewer ==
    /\ disk \in {[p \in {DataDir, SchedulingInputPath} |->
                     IF p = DataDir THEN Dir ELSE f] : f \in ViewerFiles}
    /\ _schema_cache = <<>>
    /\ ret = Idle
    /\ input \in [name : ViewerCommands, data : ViewerArgs]
    /\ _cache = <<>>
    /\ lret = LIdle

NextViewer == Main

ViewerSpec == InitViewer /\ [][NextViewer]_vars

\* The commands the help text lists, with the arguments it lists for them.
HelpListed ==
    /\ input.name \in ViewerCommands \ {"", "help", "timetable"}
    /\ input.name = "assignment" => input.data # <<>>
    /\ input.data \in {<<>>, <<"TA1">>, <<"sem1">>, <<"theory">>}

WellFormed == At(disk, SchedulingInputPath) = File(Dumps(SchedulingInput))

\* C29: with a well-formed stage_4/schedulingInput.json every command the
\* help lists is dispatched to a method the viewer has, which runs, and main
\* returns 0; no command and "summary" show the summary; an unknown command
\* shows the help and returns 1; without the input file main returns 1.
C29_EveryListedCommandRuns ==
    lret.op = "main" =>
        /\ (WellFormed /\ HelpListed) =>
              /\ Dispatch(input.name) \in Methods
              /\ lret.model.code = 0
              /\ lret.model.shown = Dispatch(input.name)
        /\ (WellFormed /\ input.name \in {"", "summary"}) =>
              /\ lret.model.code = 0
              /\ lret.model.shown = "show_summary"
        /\ (WellFormed /\ input.name \in {"help", "timetable"}) =>
              /\ lret.model.code = 1
              /\ lret.model.shown = "show_help"
        /\ ~Exists(disk, SchedulingInputPath) => lret.model.code = 1


(***************************************************************************)
(* models/stage1.py: TimeSlot built from a time text in its start or its   *)
(* end field.  input.name is the field, input.data the text, a string      *)
(* value whose s is the sequence of its characters.                        *)
(***************************************************************************)
TimeSlot ==
    BaseModel(<<Field("slot_id", "slotId", StrT),
                WithValidator(Field("start", "start", StrT), "validate_time_format"),
                WithValidator(Field("end", "end", StrT), "validate_time_format"),
                Field("length_minutes", "lengthMinutes", IntGe(1))>>,
              "forbid", "")

MaxDigits == 2

TimeDigits == {"0", "2", "3", "4", "5", "6", "9"}

\* What may stand on either side of the colon.
NumberTexts ==
    UNION {[1..n -> TimeDigits] : n \in 0..MaxDigits}
        \cup {<<"+", "9">>, <<" ", "9">>, <<"9", " ">>, <<"-", "0">>, <<"-", "9">>,
              <<"1", "_", "0">>, <<"_", "9">>, <<"A">>, <<"9", "A", "M">>}

TimeTexts ==
    {h \o <<":">> \o m : h \in NumberTexts, m \in NumberTexts}
        \cup NumberTexts
        \cup {<<"0", "9", ":", "0", "0", ":", "0", "0">>, <<"0", "9", "0", "0">>,
              <<"0", "9", ".", "0", "0">>}

\* TimeSlot(slotId="S1", start=..., end=..., lengthMinutes=55), the text
\* in the named field and a valid time in the other
SlotData(field, text) ==
    Obj(<<"slotId", "start", "end", "lengthMinutes">>,
        <<Str("S1"),
          IF field = "start" THEN text ELSE Str(<<"0", "9", ":", "0", "0">>),
          IF field = "end" THEN text ELSE Str(<<"0", "9", ":", "5", "5">>),
          Num(55)>>)

NewTimeSlot ==
    /\ lret = LIdle
    /\ lret' = [LIdle EXCEPT !.op = "TimeSlot",
                             !.kind = IF Validate(TimeSlot, SlotData(input.name,
                                                                      input.data)).ok
                                      THEN "return" ELSE "raise"]
    /\ UNCHANGED <<disk, _schema_cache, ret, input, _cache>>

InitTimes ==
    /\ disk = <<>>
    /\ _schema_cache = <<>>
    /\ ret = Idle
    /\ input \in [name : {"start", "end"}, data : {Str(s) : s \in TimeTexts}]
    /\ _cache = <<>>
    /\ lret = LIdle

NextTimes == NewTimeSlot

TimeSpec == InitTimes /\ [][NextTimes]_vars

\* HH:MM: two digits of hour in 00..23, a colon, two digits of minute in
\* 00..59.
IsHHMM(s) ==
    /\ Len(s) = 5
    /\ s[3] = ":"
    /\ \A i \in {1, 2, 4, 5} : IsDigit(s[i])
    /\ 10 * DigitValue(s[1]) + DigitValue(s[2]) <= 23
    /\ 10 * DigitValue(s[4]) + DigitValue(s[5]) <= 59

\* C30: TimeSlot accepts the text in its start or end field exactly when it
\* is in HH:MM format, and rejects every other text with a validation
\* error.
C30_OnlyHHMMIsAccepted ==
    lret.op = "TimeSlot" => (lret.kind = "return" <=> IsHHMM(input.data.s))


====
